---------------------------- MODULE Spec2Model ----------------------------
(***************************************************************************)
(* KanjiComposer: the stroke graph evaluation engine.                      *)
(*                                                                         *)
(* The model follows the three evaluators of the application               *)
(*   - TransformNode.evalNodeSvg   (evaluator "svgT")                      *)
(*   - CompositeNode.evalNodeSvg   (evaluator "svgC")                      *)
(*   - the App-level evalNode      (evaluator "app")                       *)
(* step by step over a node graph (nodes, edges), together with the glyph  *)
(* caches they share.                                                      *)
(*                                                                         *)
(* Documents.  An artifact (SVG text) is represented by the sequence of    *)
(* operations that built it, in postfix order: a glyph token carries the   *)
(* 5-hex-digit codepoint id of the fetched source, an operation token      *)
(* carries the parameters the operation was called with.  The absent       *)
(* artifact (null) is the empty sequence, which like null is falsy.        *)
(* Numbers that are fractions in the program (scale, opacity) are held in  *)
(* hundredths.                                                             *)
(***************************************************************************)
EXTENDS Integers, Sequences, FiniteSets, TLC

VARIABLES
    nodes,          \* node id -> node (type and data), as rf.getNode / byId
    edges,          \* the edge list, in the order edges.find scans it
    ev,             \* the evaluator that runs the pass
    target,         \* the node id the pass is started on
    status,         \* "idle" | "running" | "done" | "hung" | "overflow" | a rejection
    result,         \* what the pass resolved to (Null until then)
    calls,          \* number of passes started so far
    stack,          \* the chain of evaluator calls that have not returned yet
    memo,           \* the pass's memo table: node id -> promise state
    preparedCache,  \* preparedCache: keys (char strings) present
    svgCache,       \* svgCache: keys (codepoint ids) present
    workerSvgCache, \* the worker's own svgCache
    execCount,      \* per node: how often its per-kind rule was entered in this pass
    applyLog,       \* history: the rule applications of this pass
    rangeCalls,     \* history: the applyRangeBaked calls of this pass
    reads,          \* history: (reader, source, value) handed to a reader in this pass
    fetchLog,       \* history: char strings for which a network fetch was issued
    \* fetchKanjiVGSvg, call by call
    svgText,        \* svgCache: codepoint id -> the text held (NoText without an entry)
    resolves,       \* caller -> the state of its fetchKanjiVGSvg call
    succeeded,      \* history: codepoint ids some call has resolved from a tier
    \* the operation caches
    rangeSvgCache,      \* rangeSvgCache: set of << key, value >>
    transformSvgCache,  \* transformSvgCache: set of << key, value >>
    compositeSvgCache,  \* compositeSvgCache: set of << key, value >>
    lastCached,     \* history: the last cached call, what it returned and the plain result
    everCached,     \* history: every << cache, key, value >> that was ever stored
    \* one RangeSelectionNode
    rangeNode,      \* its upstream character, start / end / count state and baseRef
    loads,          \* loadBase calls awaiting fetchKanjiVGSvg, with the state they closed over
    selectCalls,    \* history: applyRangeBaked calls, with the count of their document
    \* the worker channel and one KanjiNode
    reqId,          \* _reqId
    pending,        \* _pending: the ids with a resolver
    toWorker,       \* requests posted and not yet taken by the worker
    fromWorker,     \* responses posted and not yet delivered
    resolved,       \* history: request id -> how often its promise was resolved
    effects,        \* the KanjiNode effect runs: char, alive, position, primary outcome
    \* the preview: App's evaluation effect, a node's refresh, an rafDebounce wrapper
    gen,            \* how often the evaluation inputs have changed
    appRuns,        \* the runs of App's evaluation effect, one per change
    refreshes,      \* the refresh passes of the previewed node, one per change
    shown,          \* outputs[previewId] and the node's imgSrc, with the pass that wrote them
    raf,            \* the wrapper's `raf`, the frame callbacks requested, history of runs
    \* one call of a document operation
    svgIn,          \* the document(s) the operation is applied to
    svgOut,         \* what the operation returned
    applied,        \* the operation and its arguments ("none" before the call)
    \* the 'node-preview' notifications among the nodes on screen
    wire,           \* the sources of the Transform and of the Composite node
    emitted,        \* the node whose dispatch started the propagation ("" before)
    frames,         \* the dispatchEvent calls in progress, innermost last
    tasks,          \* Composite handlers suspended at an await, oldest first
    crashed         \* whether a dispatch has exhausted the call stack

\* what an evaluation pass reads and writes
passVars == << nodes, edges, ev, target, status, result, calls, stack, memo,
               preparedCache, svgCache, workerSvgCache, execCount, applyLog,
               rangeCalls, reads, fetchLog >>

resolveVars == << svgText, resolves, succeeded >>
opCacheVars == << rangeSvgCache, transformSvgCache, compositeSvgCache, lastCached,
                 everCached >>
rangeNodeVars == << rangeNode, loads, selectCalls >>
workerVars == << reqId, pending, toWorker, fromWorker, resolved, effects >>
previewVars == << gen, appRuns, refreshes, shown, raf >>
domVars == << svgIn, svgOut, applied >>
notifyVars == << wire, emitted, frames, tasks, crashed >>

\* what an evaluation pass leaves alone
sideVars == << resolveVars, opCacheVars, rangeNodeVars, workerVars, previewVars,
              domVars, notifyVars >>

vars == << passVars, sideVars >>

graphVars == << nodes, edges, ev, target >>
cacheVars == << preparedCache, svgCache, workerSvgCache >>

-----------------------------------------------------------------------------
(* Bounds of the model *)

\* the depth at which the JavaScript engine's call stack overflows
StackLimit == 24
\* declared start / end of a Range node are drawn from -1 .. MaxDeclared
MaxDeclared == 4
\* evaluation passes per behaviour
MaxCalls == 2

\* fetchKanjiVGSvg calls made by each caller
MaxResolves == 2

(* Program constants *)

\* `if (depth > 20) return null`
MaxDepth == 20

-----------------------------------------------------------------------------
(* Small helpers *)

Null == << >>

Min2(a, b) == IF a <= b THEN a ELSE b
Max2(a, b) == IF a >= b THEN a ELSE b

\* JavaScript `v || d` on numbers: 0 (like NaN and undefined) is falsy
OrElse(v, d) == IF v = 0 THEN d ELSE v

RECURSIVE SetMax(_)
SetMax(S) ==
    IF S = {} THEN 0
    ELSE LET x == CHOOSE y \in S : TRUE
         IN  Max2(x, SetMax(S \ {x}))

-----------------------------------------------------------------------------
(* GlyphSource: codepoint ids *)

RECURSIVE ToHex(_)
\* Number.prototype.toString(16): the hexadecimal digits, most significant first
ToHex(n) == IF n < 16 THEN << n >> ELSE ToHex(n \div 16) \o << n % 16 >>

RECURSIVE pad5(_)
\* hex.padStart(5, "0")
pad5(hex) == IF Len(hex) >= 5 THEN hex ELSE pad5(<< 0 >> \o hex)

\* ch.codePointAt(0): 0 stands for undefined (the empty string) as well as U+0000,
\* both of which `!cp` rejects
codePointAt0(ch) == IF Len(ch) = 0 THEN 0 ELSE ch[1]

\* code5 throws "invalid char"
code5Throws(ch) == codePointAt0(ch) = 0

\* code5: the id of the FIRST code point of the string
code5(ch) == pad5(ToHex(codePointAt0(ch)))

\* Characters used by the model, as sequences of code points
Kuchi  == << 21475 >>          \* U+53E3, three strokes
Hito   == << 20154 >>          \* U+4EBA, two strokes
Maru   == << 12295 >>          \* U+3007, a source without stroke carriers
TwoCps == << 21475, 20154 >>   \* a string of two code points
Empty  == << >>                \* no character
Nul    == << 0 >>              \* the one-character string U+0000
\* U+5165, two strokes; stands for a glyph whose source is as long as Hito's (the
\* lengths of the source files are not unique)
Iru    == << 20837 >>

Chars == { Kuchi, Hito, Maru, TwoCps, Empty, Nul }

\* The largest stroke index among the carriers (`-sN` ids) of the source that
\* a codepoint id resolves to.
SourceStrokes(c5) ==
    CASE c5 = code5(Kuchi) -> 3
      [] c5 = code5(Hito)  -> 2
      [] c5 = code5(Iru)   -> 2
      [] OTHER             -> 0

\* The number of characters of the source text of a codepoint id
SourceLength(c5) ==
    CASE c5 = code5(Kuchi) -> 1900
      [] c5 = code5(Hito)  -> 1500
      [] c5 = code5(Iru)   -> 1500
      [] OTHER             -> 1100

-----------------------------------------------------------------------------
(* Documents and the pure operations on them *)

Tok(op, g, p) == [op |-> op, g |-> g, p |-> p]

IsGlyph(t) == t.op = "glyph"

\* A pass that ends with a rejected promise carries the message of its error:
\* code5's, or fetchKanjiVGSvg's after both tiers answered nothing
InvalidChar == "rejected: invalid char"
NotFound    == "rejected: KanjiVG not found"
Rejected    == { InvalidChar, NotFound }

\* The raw source text fetched for a codepoint id.  The flags of a glyph token:
\* p[1] stroke numbers removed, p[2] annotated, p[3] stroke colour forced.
RawSvg(c5) == << Tok("glyph", c5, << 0, 0, 0 >>) >>

SetFlag(doc, k) ==
    [ i \in DOMAIN doc |->
        IF IsGlyph(doc[i]) THEN [ doc[i] EXCEPT !.p[k] = 1 ] ELSE doc[i] ]

\* removes every kvg:StrokeNumbers_ group of the document
hideStrokeNumbers(doc) == SetFlag(doc, 1)

\* tags every drawable leaf with data-stroke / data-ignore, normalises the root
annotateStrokes(doc) == SetFlag(doc, 2)

\* sets stroke, width, cap, join and fill on every drawable
forceStrokeColor(doc) == SetFlag(doc, 3)

\* bakeStrokes(svgText).count: the largest index among the carriers, which every
\* operation keeps in the document (ids are never rewritten); 0 without carriers
BakeCount(doc) ==
    SetMax({ SourceStrokes(doc[i].g) : i \in { j \in DOMAIN doc : IsGlyph(doc[j]) } })

\* bakeStrokes(svgText): { svg, count }
bakeStrokes(doc) ==
    [ svg |-> doc \o << Tok("bake", << >>, << >>) >>, count |-> BakeCount(doc) ]

\* applyRangeBaked(svgText, start, end): orders its arguments itself
applyRangeBaked(doc, start, end) ==
    doc \o << Tok("range", << >>, << Min2(start, end), Max2(start, end) >>) >>

\* countStrokes(baked.svg) of a document baked to count 0: there is no
\* g[data-stroke], and the pattern /-s(\\d+)$/ matches no id, so `max || 1`
countStrokes(doc) == 1

\* applyTransform: translate(x||0, y||0) scale(sx||1, sy||1) around the root children
applyTransform(doc, x, y, sx, sy) ==
    doc \o << Tok("transform", << >>, << x, y, OrElse(sx, 100), OrElse(sy, 100) >>) >>

\* composite: identity short-circuit, else B's root children appended to A's
composite(svgA, svgB) ==
    IF svgA = svgB THEN svgA
    ELSE svgA \o svgB \o << Tok("composite", << >>, << >>) >>

\* an opacity passed on unclamped
clampNone(v) == v

\* clamp of compositeAlpha, in hundredths
clamp(v) == Max2(0, Min2(100, v))

\* compositeAlpha: two opacity groups, A then B, or B then A when swap is set
compositeAlpha(svgA, svgB, alphaA, alphaB, swap) ==
    svgA \o svgB \o
    << Tok("compositeAlpha", << >>,
           << clamp(alphaA), clamp(alphaB), IF swap THEN 1 ELSE 0 >>) >>

\* getPreparedSvg(char, true) on success
PreparedSvg(ch) ==
    forceStrokeColor(annotateStrokes(hideStrokeNumbers(RawSvg(code5(ch)))))

\* evalInWorker, type "kanji", hideNumbers: true, on success
WorkerKanjiSvg(ch) == annotateStrokes(hideStrokeNumbers(RawSvg(code5(ch))))

-----------------------------------------------------------------------------
(* The node graph *)

\* Node ids of the graph: two Glyph nodes, one Range, one Transform, one Composite
NodeIds == { "k1", "k2", "r", "t", "c" }

\* the id of a node that was deleted while edges from it remain
Ghost == "x"

AllIds == NodeIds \cup { Ghost }

Evaluators == { "svgT", "svgC", "app" }

NodeType(id) ==
    CASE id \in { "k1", "k2" } -> "kanji"
      [] id = "r" -> "range"
      [] id = "t" -> "transform"
      [] id = "c" -> "composite"

\* node.data, one record shape for every node type
DefaultData ==
    [ char |-> Empty, start |-> 1, end |-> 2, x |-> 0, y |-> 0, sx |-> 100,
      sy |-> 100, alphaA |-> 100, alphaB |-> 100, swap |-> FALSE ]

\* rf.getNode(id) / byId[id]: the ghost id denotes no node
HasNode(id) == id \in DOMAIN nodes

Edge(s, t, h) == [ source |-> s, target |-> t, targetHandle |-> h ]

\* The input ports of the graph, in the order their edges were connected
Ports == << [ node |-> "r", handle |-> "" ], [ node |-> "t", handle |-> "" ],
            [ node |-> "c", handle |-> "A" ], [ node |-> "c", handle |-> "B" ] >>

PortIds == DOMAIN Ports

\* the edge list of a wiring (port -> source id, "" for an open port)
RECURSIVE EdgesFrom(_, _)
EdgesFrom(w, i) ==
    IF i > Len(Ports) THEN << >>
    ELSE (IF w[i] = "" THEN << >>
          ELSE << Edge(w[i], Ports[i].node, Ports[i].handle) >>)
         \o EdgesFrom(w, i + 1)

\* node ids reachable from `from` against the edges of wiring w
RECURSIVE ReachW(_, _, _)
ReachW(w, S, k) ==
    IF k = 0 THEN S
    ELSE ReachW(w, S \cup { w[i] : i \in { j \in PortIds : Ports[j].node \in S } }, k - 1)

Upstream(w, from) == ReachW(w, { from }, Len(Ports) + 1)

\* ids upstream of the node at the end of the stored edges
RECURSIVE ReachE(_, _)
ReachE(S, k) ==
    IF k = 0 THEN S
    ELSE ReachE(S \cup { edges[i].source : i \in { j \in DOMAIN edges : edges[j].target \in S } },
                k - 1)

\* the graph upstream of the target has a cycle
Cyclic ==
    \E n \in NodeIds :
        /\ n \in ReachE({ target }, Len(edges) + 1)
        /\ n \in ReachE({ edges[i].source : i \in { j \in DOMAIN edges : edges[j].target = n } },
                        Len(edges) + 1)

-----------------------------------------------------------------------------
(* Initial states: the graphs the editor has built and the pass to run *)

Sources == { "" } \cup AllIds

DeclaredValues == (0 - 1) .. MaxDeclared

AlphaProfiles ==
    { << 100, 100, FALSE >>, << 50, 150, TRUE >>, << 0 - 20, 30, FALSE >> }

NodesWith(ch1, ch2, st, en, al) ==
    [ id \in NodeIds |->
        [ type |-> NodeType(id),
          data |-> [ DefaultData EXCEPT
                       !.char = IF id = "k1" THEN ch1 ELSE IF id = "k2" THEN ch2 ELSE Empty,
                       !.start = st, !.end = en,
                       !.alphaA = al[1], !.alphaB = al[2], !.swap = al[3],
                       !.x = IF id = "t" THEN 5 ELSE 0 ] ] ]

\* the passes the program starts on a wiring: TransformNode.refresh evaluates the
\* Transform's source, CompositeNode.refresh the sources of A and of B, the App
\* the preview node
Passes(w) ==
    { << "svgT", w[2] >>, << "svgC", w[3] >>, << "svgC", w[4] >> }
    \cup { << "app", id >> : id \in NodeIds }

\* Ports of nodes that the pass cannot reach stay open: their wiring does not
\* matter to the pass.  The port that names the target of a node-level pass is kept.
Trimmed(w, e, tg) ==
    [ i \in PortIds |->
        IF \/ Ports[i].node \in Upstream(w, tg)
           \/ e = "svgT" /\ i = 2
           \/ e = "svgC" /\ i \in { 3, 4 } /\ w[i] = tg
        THEN w[i] ELSE "" ]

\* wirings explored with every parameter choice
BaseWirings ==
    { << "k1", "k2", "r", "t" >>, << "k1", "r", "k1", "t" >>, << "k1", "k1", "r", "k2" >>,
      << "k1", "c", "r", "k2" >> }

GraphChoices ==
    { [ w |-> w, ch1 |-> Kuchi, ch2 |-> Hito, st |-> 1, en |-> 2, al |-> << 100, 100, FALSE >> ] :
        w \in [ PortIds -> Sources ] }
    \cup
    { [ w |-> w, ch1 |-> c, ch2 |-> Hito, st |-> 1, en |-> 2, al |-> a ] :
        w \in BaseWirings, c \in Chars, a \in AlphaProfiles }
    \cup
    { [ w |-> w, ch1 |-> c, ch2 |-> Hito, st |-> s, en |-> e, al |-> << 100, 100, FALSE >> ] :
        w \in BaseWirings, c \in { Kuchi, Hito }, s \in DeclaredValues, e \in DeclaredValues }

EmptyMemo == [ id \in AllIds |-> [ st |-> "none", d |-> 0, v |-> Null ] ]

\* The state beside the passes, before anything has used it.

\* svgCache.get(c5) of a key without an entry
NoText == << >>

\* the codepoint ids resolved in the model
GlyphIds == { code5(Kuchi), code5(Hito), code5(Maru) }

\* the concurrent callers of fetchKanjiVGSvg
Callers == { 1, 2 }

\* a caller that is not inside fetchKanjiVGSvg
IdleCall ==
    [ pc |-> "idle", ch |-> Empty, primary |-> "none", secondary |-> "none",
      fetches |-> 0, hit |-> FALSE, ret |-> NoText, n |-> 0 ]

ResolveRest ==
    /\ svgText = [ c5 \in GlyphIds |-> NoText ]
    /\ resolves = [ c \in Callers |-> IdleCall ]
    /\ succeeded = {}

\* no cached call made yet
NoCall == [ op |-> "none", ret |-> Null, plain |-> Null ]

OpCacheRest ==
    /\ rangeSvgCache = {}
    /\ transformSvgCache = {}
    /\ compositeSvgCache = {}
    /\ lastCached = NoCall
    /\ everCached = {}

\* baseRef.current = null
NoBase == [ svg |-> Null, count |-> 0 ]

\* useState(data.start ?? 1), useState(data.end ?? 1), useState(0), useRef(null) of a
\* node added with data { start: 1, end: 1 } and no input edge.  Beside the state
\* of the node: the base loaded last (last) and the one loaded before it (prev).
RangeNodeRest ==
    /\ rangeNode = [ up |-> Empty, start |-> 1, end |-> 1, count |-> 0, base |-> NoBase,
                     last |-> NoBase, prev |-> NoBase ]
    /\ loads = {}
    /\ selectCalls = {}

\* `let _reqId = 1; const _pending = new Map()`; no KanjiNode effect has run, no
\* message is under way, nothing has been resolved (log) and the handler of the
\* main thread has seen no message without a pending id (strays)
WorkerRest ==
    /\ reqId = 1
    /\ pending = {}
    /\ toWorker = {}
    /\ fromWorker = {}
    /\ resolved = [ log |-> << >>, strays |-> 0 ]
    /\ effects = << >>

\* nothing published or displayed: `useState({})`, `useState(null)`; `let raf = 0`
NoArtifact == [ ver |-> 0, svg |-> FALSE, by |-> "none" ]

PreviewRest ==
    /\ gen = 0
    /\ appRuns = << >>
    /\ refreshes = << >>
    /\ shown = [ outputs |-> NoArtifact, imgSrc |-> NoArtifact ]
    /\ raf = [ id |-> 0, next |-> 1, pending |-> {}, last |-> 0, burst |-> 0, ran |-> << >> ]

\* no node on screen, nothing dispatched
NotifyRest ==
    /\ wire = << >>
    /\ emitted = ""
    /\ frames = << >>
    /\ tasks = << >>
    /\ crashed = FALSE

\* no document operation called
DomRest ==
    /\ svgIn = << >>
    /\ svgOut = << >>
    /\ applied = [ op |-> "none" ]

\* no graph, no pass: `useNodesState([])`, `useEdgesState([])`
PassRest ==
    /\ nodes = << >>
    /\ edges = << >>
    /\ ev = "app"
    /\ target = ""
    /\ status = "idle"
    /\ result = Null
    /\ calls = 0
    /\ stack = << >>
    /\ memo = EmptyMemo
    /\ preparedCache = {}
    /\ svgCache = {}
    /\ workerSvgCache = {}
    /\ execCount = [ id \in AllIds |-> 0 ]
    /\ applyLog = {}
    /\ rangeCalls = {}
    /\ reads = {}
    /\ fetchLog = {}

Init ==
    \E g \in GraphChoices :
      \E ps \in Passes(g.w) :
        /\ ps[2] # ""
        /\ nodes = NodesWith(g.ch1, g.ch2, g.st, g.en, g.al)
        /\ edges = EdgesFrom(Trimmed(g.w, ps[1], ps[2]), 1)
        /\ ev = ps[1]
        /\ target = ps[2]
        /\ status = "idle"
        /\ result = Null
        /\ calls = 0
        /\ stack = << >>
        /\ memo = EmptyMemo
        /\ preparedCache = {}
        /\ svgCache = {}
        /\ workerSvgCache = {}
        /\ execCount = [ id \in AllIds |-> 0 ]
        /\ applyLog = {}
        /\ rangeCalls = {}
        /\ reads = {}
        /\ fetchLog = {}
        /\ ResolveRest /\ OpCacheRest /\ RangeNodeRest /\ WorkerRest
        /\ PreviewRest /\ DomRest /\ NotifyRest

-----------------------------------------------------------------------------
(* The per-kind rules, as each evaluator writes them *)

\* evalNodeSvg (range): s and e handed to applyRangeBaked
EffectiveBoundsSvg(start, end, maxC) ==
    LET sRaw == OrElse(start, 1)
        eRaw == OrElse(end, maxC)
    IN  << Min2(Max2(1, Min2(sRaw, eRaw)), maxC),
           Min2(Max2(1, Max2(sRaw, eRaw)), maxC) >>

\* bounds clamped but handed on in the declared order
EffectiveBoundsUnordered(start, end, count) ==
    << Max2(1, Min2(OrElse(start, 1), OrElse(count, 1))),
       Max2(1, Min2(OrElse(OrElse(end, count), 1), OrElse(count, 1))) >>

\* App evalNode (range): s and e, ordered when handed to applyRangeBaked
EffectiveBoundsApp(start, end, count) ==
    LET s == Max2(1, Min2(OrElse(start, 1), OrElse(count, 1)))
        e == Max2(1, Min2(OrElse(OrElse(end, count), 1), OrElse(count, 1)))
    IN  << Min2(s, e), Max2(s, e) >>

\* the range rule of evaluator e on a present input: the bounds and the artifact
RangeRule(e, data, input) ==
    LET baked == bakeStrokes(input)
        maxC  == OrElse(OrElse(baked.count, countStrokes(baked.svg)), 1)
        se    == IF e = "app"
                 THEN EffectiveBoundsApp(data.start, data.end, baked.count)
                 ELSE EffectiveBoundsSvg(data.start, data.end, maxC)
    IN  [ count |-> baked.count, s |-> se[1], e |-> se[2],
          out |-> applyRangeBaked(baked.svg, se[1], se[2]) ]

\* a transform rule without the `if (!input) return null` guard in front of it
TransformRuleUnguarded(e, data, input) ==
    applyTransform(input, data.x, data.y, data.sx, data.sy)

\* the transform rule, null without an input: `?? 0` / `?? 1` in evalNodeSvg,
\* `|| 0` / `|| 1` in the App
TransformRule(e, data, input) ==
    IF input = Null THEN Null
    ELSE IF e = "app"
    THEN applyTransform(input, OrElse(data.x, 0), OrElse(data.y, 0),
                        OrElse(data.sx, 100), OrElse(data.sy, 100))
    ELSE applyTransform(input, data.x, data.y, data.sx, data.sy)

\* a composite rule that yields nothing unless both inputs are present
CompositeRuleBothOnly(e, data, a, b) ==
    IF a # Null /\ b # Null
    THEN compositeAlpha(a, b, data.alphaA, data.alphaB, data.swap)
    ELSE Null

\* the composite rule: TransformNode.evalNodeSvg appends, the other two blend
CompositeRule(e, data, a, b) ==
    IF a # Null /\ b # Null
    THEN IF e = "svgT"
         THEN composite(a, b)
         ELSE compositeAlpha(a, b, data.alphaA, data.alphaB, data.swap)
    ELSE IF a # Null THEN a ELSE b

\* one entry of applyLog
Applied(n, a, b, out, settled) ==
    [ node |-> n, type |-> nodes[n].type, a |-> a, b |-> b, out |-> out,
      settled |-> settled ]

\* the rule of node n completes on inputs a (and b): its artifact and what it logs
RuleOutcome(n, a, b, settled) ==
    LET ty   == nodes[n].type
        data == nodes[n].data
        rr   == RangeRule(ev, data, a)
        out  == CASE ty = "range"     -> IF a = Null THEN Null ELSE rr.out
                  [] ty = "transform" -> TransformRule(ev, data, a)
                  [] ty = "composite" -> CompositeRule(ev, data, a, b)
                  [] OTHER            -> Null
    IN  [ out |-> out,
          log |-> { Applied(n, a, b, out, settled) },
          rangeCall |-> IF ty = "range" /\ a # Null
                        THEN { [ node |-> n, count |-> rr.count, start |-> data.start,
                                 end |-> data.end, s |-> rr.s, e |-> rr.e ] }
                        ELSE {} ]

-----------------------------------------------------------------------------
(* evalNodeSvg of TransformNode and of CompositeNode *)

SvgFrame(n, d) ==
    [ node |-> n, depth |-> d, pc |-> "enter", a |-> Null, b |-> Null,
      got |-> {}, reg |-> FALSE, i |-> 0 ]

Top == stack[Len(stack)]
Below == SubSeq(stack, 1, Len(stack) - 1)

\* getIn(handle): edgesAll.find(e => e.target === nodeId &&
\*                 (handle ? e.targetHandle === handle : !e.targetHandle)); 0 if none
SvgInEdge(n, handle) ==
    LET idx == { i \in DOMAIN edges :
                   edges[i].target = n /\ edges[i].targetHandle = handle }
    IN  IF idx = {} THEN 0 ELSE CHOOSE i \in idx : \A j \in idx : i <= j

\* a table that never answers
MemoMiss(m, n) == FALSE

\* memo.has(nodeId)
MemoHas(m, n) == m[n].st # "none"

\* memo.set(nodeId, p) runs when the call's synchronous part ends, that is when
\* the descent below it first suspends: then every call of the chain that is not
\* yet in the table enters it, the shallowest call of a node last.
MemoRegister(m, stk) ==
    [ id \in AllIds |->
        LET idx == { i \in DOMAIN stk : stk[i].node = id /\ ~stk[i].reg }
        IN  IF idx = {} THEN m[id]
            ELSE [ st |-> "pending", v |-> Null,
                   d  |-> stk[CHOOSE i \in idx : \A j \in idx : i <= j].depth ] ]

RegisterAll(stk) == [ i \in DOMAIN stk |-> [ stk[i] EXCEPT !.reg = TRUE ] ]

\* the promise of frame f settles with v
MemoSettle(m, f, v) ==
    IF m[f.node].st = "pending" /\ m[f.node].d = f.depth
    THEN [ m EXCEPT ![f.node] = [ st |-> "done", d |-> 0, v |-> v ] ]
    ELSE m

\* the awaiting caller (the last frame of stk) receives v
Received(stk, v) ==
    LET f == stk[Len(stk)]
        g == CASE f.pc = "awaitIn" -> [ f EXCEPT !.pc = "gotIn", !.a = v, !.got = @ \cup { "" } ]
               [] f.pc = "awaitA"  -> [ f EXCEPT !.pc = "gotA", !.a = v, !.got = @ \cup { "A" } ]
               [] f.pc = "awaitB"  -> [ f EXCEPT !.pc = "gotB", !.b = v, !.got = @ \cup { "B" } ]
    IN  [ stk EXCEPT ![Len(stk)] = g ]

\* The call on node src returns v to what is below it on the stack.
SvgReturn(below, m, src, v) ==
    /\ memo' = m
    /\ IF below = << >>
       THEN /\ stack' = << >>
            /\ status' = "done"
            /\ result' = v
            /\ reads' = reads
       ELSE /\ stack' = Received(below, v)
            /\ reads' = reads \cup { [ reader |-> below[Len(below)].node,
                                       source |-> src, v |-> v ] }
            /\ UNCHANGED << status, result >>

\* evalNodeSvg is entered: the guards, then the synchronous part of the rule
SvgEnter ==
    /\ status = "running" /\ ev \in { "svgT", "svgC" }
    /\ stack # << >> /\ Top.pc = "enter"
    /\ LET f    == Top
           n    == f.node
           regd == RegisterAll(Below)
           mreg == MemoRegister(memo, Below)
       IN
       IF n = "" \/ f.depth > MaxDepth
       THEN \* `return null`, before the table is consulted or written
            /\ SvgReturn(regd, mreg, n, Null)
            /\ UNCHANGED << execCount, applyLog, rangeCalls >>
       ELSE IF MemoHas(memo, n)
       THEN /\ UNCHANGED << execCount, applyLog, rangeCalls >>
            /\ IF memo[n].st = "done"
               THEN SvgReturn(regd, mreg, n, memo[n].v)
               ELSE \* the promise of a call that itself waits for this one
                    /\ status' = "hung"
                    /\ UNCHANGED << stack, memo, result, reads >>
       ELSE \* the rule of an existing node is entered
            /\ execCount' = IF HasNode(n) THEN [ execCount EXCEPT ![n] = @ + 1 ]
                            ELSE execCount
            /\ IF ~HasNode(n) \/ (nodes[n].type = "kanji" /\ nodes[n].data.char = Empty)
               THEN \* the rule returns null at once
                    /\ SvgReturn(regd, [ mreg EXCEPT ![n] = [ st |-> "done", d |-> 0, v |-> Null ] ],
                                 n, Null)
                    /\ UNCHANGED << applyLog, rangeCalls >>
               ELSE IF nodes[n].type = "kanji"
               THEN \* await getPreparedSvg(ch, true)
                    /\ stack' = RegisterAll(Below \o << [ f EXCEPT !.pc = "fetch" ] >>)
                    /\ memo' = MemoRegister(memo, stack)
                    /\ UNCHANGED << status, result, reads, applyLog, rangeCalls >>
               ELSE LET h == IF nodes[n].type = "composite" THEN "A" ELSE ""
                        e == SvgInEdge(n, h)
                    IN
                    /\ UNCHANGED << status, result, reads, applyLog, rangeCalls >>
                    /\ IF e = 0
                       THEN \* getIn resolves to null
                            /\ stack' = RegisterAll(Received(
                                 Below \o << [ f EXCEPT !.pc = IF h = "A" THEN "awaitA" ELSE "awaitIn" ] >>,
                                 Null))
                            /\ memo' = MemoRegister(memo, stack)
                       ELSE \* evalNodeSvg(edge.source, depth + 1, memo), synchronously
                            /\ stack' = Below
                                 \o << [ f EXCEPT !.pc = IF h = "A" THEN "awaitA" ELSE "awaitIn" ] >>
                                 \o << SvgFrame(edges[e].source, f.depth + 1) >>
                            /\ memo' = memo
    /\ UNCHANGED << graphVars, cacheVars, calls, fetchLog >>
    /\ UNCHANGED sideVars

\* the promise of the top frame settles with v and its caller receives v
SvgComplete(v) ==
    SvgReturn(Below, MemoSettle(memo, Top, v), Top.node, v)

\* getPreparedSvg(ch, true) settles for the Glyph node on top of the stack:
\* preparedCache, code5, svgCache, then fetchKanjiVGSvg over both tiers
SvgFetchDone ==
    /\ status = "running" /\ ev \in { "svgT", "svgC" }
    /\ stack # << >> /\ Top.pc = "fetch"
    /\ LET ch == nodes[Top.node].data.char
       IN
       \/ /\ ch \in preparedCache
          /\ SvgComplete(PreparedSvg(ch))
          /\ UNCHANGED << cacheVars, fetchLog >>
       \/ /\ ch \notin preparedCache /\ code5Throws(ch)
          /\ status' = InvalidChar /\ stack' = << >>
          /\ UNCHANGED << memo, result, reads, cacheVars, fetchLog >>
       \/ /\ ch \notin preparedCache /\ ~code5Throws(ch) /\ code5(ch) \in svgCache
          /\ preparedCache' = preparedCache \cup { ch }
          /\ SvgComplete(PreparedSvg(ch))
          /\ UNCHANGED << svgCache, workerSvgCache, fetchLog >>
       \/ \* a tier answers
          /\ ch \notin preparedCache /\ ~code5Throws(ch) /\ code5(ch) \notin svgCache
          /\ fetchLog' = fetchLog \cup { ch }
          /\ svgCache' = svgCache \cup { code5(ch) }
          /\ preparedCache' = preparedCache \cup { ch }
          /\ SvgComplete(PreparedSvg(ch))
          /\ UNCHANGED workerSvgCache
       \/ \* both tiers fail: fetchKanjiVGSvg throws, nothing catches it
          /\ ch \notin preparedCache /\ ~code5Throws(ch) /\ code5(ch) \notin svgCache
          /\ fetchLog' = fetchLog \cup { ch }
          /\ status' = NotFound /\ stack' = << >>
          /\ UNCHANGED << memo, result, reads, cacheVars >>
    /\ UNCHANGED << graphVars, calls, execCount, applyLog, rangeCalls >>
    /\ UNCHANGED sideVars

\* the ports a rule of this type awaits before it combines
AwaitedPorts(ty) ==
    CASE ty = "composite" -> { "A", "B" }
      [] ty \in { "range", "transform" } -> { "" }
      [] OTHER -> {}

\* the rule of the top frame continues after an await
SvgResume ==
    /\ status = "running" /\ ev \in { "svgT", "svgC" }
    /\ stack # << >> /\ Top.pc \in { "gotIn", "gotA", "gotB" }
    /\ LET f == Top
           n == f.node
       IN
       IF f.pc = "gotA"
       THEN \* const b = await getIn("B")
            LET e == SvgInEdge(n, "B")
            IN  /\ IF e = 0
                   THEN stack' = Received(Below \o << [ f EXCEPT !.pc = "awaitB" ] >>, Null)
                   ELSE stack' = Below \o << [ f EXCEPT !.pc = "awaitB" ] >>
                                       \o << SvgFrame(edges[e].source, f.depth + 1) >>
                /\ UNCHANGED << memo, status, result, reads, applyLog, rangeCalls >>
       ELSE LET ro == RuleOutcome(n, f.a, f.b, AwaitedPorts(nodes[n].type) \subseteq f.got)
            IN  /\ applyLog' = applyLog \cup ro.log
                /\ rangeCalls' = rangeCalls \cup ro.rangeCall
                /\ SvgComplete(ro.out)
    /\ UNCHANGED << graphVars, cacheVars, calls, execCount, fetchLog >>
    /\ UNCHANGED sideVars

-----------------------------------------------------------------------------
(* A pass starts *)

\* `memo = new Map()`: the default parameter of evalNodeSvg, the local of the App pass
NewMemo(old) == EmptyMemo

AppFrame(n) ==
    [ node |-> n, depth |-> 0, pc |-> "app", a |-> Null, b |-> Null,
      got |-> {}, reg |-> FALSE, i |-> 0 ]

Terminal == status \in { "done", "hung", "overflow" } \cup Rejected

\* refresh() of the Transform / Composite node, or the App's evaluation effect,
\* starts a pass on the target; an earlier pass is left behind
Start ==
    /\ status = "idle" \/ Terminal
    /\ calls < MaxCalls
    /\ calls' = calls + 1
    /\ status' = "running"
    /\ result' = Null
    /\ memo' = NewMemo(memo)
    /\ stack' = IF ev = "app" THEN << AppFrame(target) >> ELSE << SvgFrame(target, 0) >>
    /\ execCount' = [ id \in AllIds |-> 0 ]
    /\ applyLog' = {}
    /\ rangeCalls' = {}
    /\ reads' = {}
    /\ fetchLog' = {}
    /\ UNCHANGED << graphVars, cacheVars >>
    /\ UNCHANGED sideVars

-----------------------------------------------------------------------------
(* The App-level evalNode *)

\* ins(id): the edges into id, in list order (as indices into edges)
RECURSIVE InsFrom(_, _)
InsFrom(id, i) ==
    IF i > Len(edges) THEN << >>
    ELSE (IF edges[i].target = id THEN << i >> ELSE << >>) \o InsFrom(id, i + 1)

ins(id) == InsFrom(id, 1)

\* getIn(handle): ins(id).find(e => handle ? e.targetHandle === handle : true); 0 if none
AppInEdge(n, handle) ==
    LET idx == { i \in DOMAIN edges :
                   edges[i].target = n /\ (handle = "" \/ edges[i].targetHandle = handle) }
    IN  IF idx = {} THEN 0 ELSE CHOOSE i \in idx : \A j \in idx : i <= j

Done(v) == [ st |-> "done", d |-> 0, v |-> v ]
Waiting(st) == [ st |-> st, d |-> 0, v |-> Null ]

\* the synchronous part of the rule of node n, as the promise it leaves in the table
AppBodyStart(n) ==
    LET ch == nodes[n].data.char
    IN  CASE nodes[n].type = "kanji" ->
               IF ch = Empty THEN Done(Null)
               ELSE IF ch \in preparedCache THEN Done(PreparedSvg(ch))
               ELSE IF code5Throws(ch) THEN Waiting("worker")
               ELSE IF code5(ch) \in svgCache THEN Done(PreparedSvg(ch))
               ELSE Waiting("fetch")
          [] nodes[n].type \in { "range", "transform", "composite" } -> Waiting("pending")
          [] OTHER -> Done(Null)

\* evalNode(id) runs: the guards, `ins(id).forEach(...)` up to the next call it
\* makes, and after the last edge the start of the rule and memo.set(id, p)
AppStep ==
    /\ status = "running" /\ ev = "app"
    /\ stack # << >> /\ Top.pc = "app"
    /\ LET f    == Top
           n    == f.node
           in   == ins(n)
           todo == { k \in DOMAIN in : k > f.i /\ ~MemoHas(memo, edges[in[k]].source) }
       IN
       IF f.i = 0 /\ MemoHas(memo, n)
       THEN \* `if (memo.has(id)) return memo.get(id)`
            /\ stack' = Below
            /\ UNCHANGED << memo, status, execCount, preparedCache, fetchLog >>
       ELSE IF f.i = 0 /\ ~HasNode(n)
       THEN \* `if (!n) return null`; the caller stores the promise under e.source
            /\ stack' = Below
            /\ memo' = [ memo EXCEPT ![n] = Done(Null) ]
            /\ UNCHANGED << status, execCount, preparedCache, fetchLog >>
       ELSE IF todo # {}
       THEN \* memo.set(e.source, evalNode(e.source)): the call is made at once
            LET k == CHOOSE x \in todo : \A y \in todo : x <= y
            IN  /\ IF Len(stack) >= StackLimit
                   THEN \* RangeError: Maximum call stack size exceeded
                        /\ status' = "overflow"
                        /\ stack' = stack
                   ELSE /\ stack' = Below \o << [ f EXCEPT !.i = k ] >>
                                          \o << AppFrame(edges[in[k]].source) >>
                        /\ status' = status
                /\ UNCHANGED << memo, execCount, preparedCache, fetchLog >>
       ELSE \* const p = (async () => { ... })(); memo.set(id, p); return p
            LET p == AppBodyStart(n)
            IN  /\ stack' = Below
                /\ memo' = [ memo EXCEPT ![n] = p ]
                /\ execCount' = [ execCount EXCEPT ![n] = @ + 1 ]
                /\ preparedCache' = IF nodes[n].type = "kanji" /\ p.st = "done" /\ p.v # Null
                                    THEN preparedCache \cup { nodes[n].data.char }
                                    ELSE preparedCache
                /\ fetchLog' = IF p.st = "fetch"
                               THEN fetchLog \cup { nodes[n].data.char }
                               ELSE fetchLog
                /\ status' = status
    /\ UNCHANGED << graphVars, svgCache, workerSvgCache, calls, result, applyLog,
                    rangeCalls, reads >>
    /\ UNCHANGED sideVars

\* fetchKanjiVGSvg of a Glyph node settles: a tier answered, or both failed and
\* the catch block calls the worker
AppFetchDone(n) ==
    /\ status = "running" /\ ev = "app" /\ stack = << >>
    /\ memo[n].st = "fetch"
    /\ LET ch == nodes[n].data.char
       IN  \/ /\ memo' = [ memo EXCEPT ![n] = Done(PreparedSvg(ch)) ]
              /\ svgCache' = svgCache \cup { code5(ch) }
              /\ preparedCache' = preparedCache \cup { ch }
           \/ /\ memo' = [ memo EXCEPT ![n] = Waiting("worker") ]
              /\ UNCHANGED << svgCache, preparedCache >>
    /\ UNCHANGED << graphVars, workerSvgCache, status, result, calls, stack,
                    execCount, applyLog, rangeCalls, reads, fetchLog >>
    /\ UNCHANGED sideVars

\* the worker answers callWorker({ type: "kanji", ... }): the annotated source, or
\* null when its own code5 or fetch threw
AppWorkerDone(n) ==
    /\ status = "running" /\ ev = "app" /\ stack = << >>
    /\ memo[n].st = "worker"
    /\ LET ch == nodes[n].data.char
       IN  \/ /\ code5Throws(ch)
              /\ memo' = [ memo EXCEPT ![n] = Done(Null) ]
              /\ UNCHANGED << workerSvgCache, fetchLog >>
           \/ /\ ~code5Throws(ch) /\ code5(ch) \in workerSvgCache
              /\ memo' = [ memo EXCEPT ![n] = Done(WorkerKanjiSvg(ch)) ]
              /\ UNCHANGED << workerSvgCache, fetchLog >>
           \/ /\ ~code5Throws(ch) /\ code5(ch) \notin workerSvgCache
              /\ fetchLog' = fetchLog \cup { ch }
              /\ \/ /\ memo' = [ memo EXCEPT ![n] = Done(WorkerKanjiSvg(ch)) ]
                    /\ workerSvgCache' = workerSvgCache \cup { code5(ch) }
                 \/ /\ memo' = [ memo EXCEPT ![n] = Done(Null) ]
                    /\ UNCHANGED workerSvgCache
    /\ UNCHANGED << graphVars, svgCache, preparedCache, status, result, calls, stack,
                    execCount, applyLog, rangeCalls, reads >>
    /\ UNCHANGED sideVars

\* what `await memo.get(edge.source)` of getIn(handle) yields, Null without an edge
AppInput(n, handle) ==
    IF AppInEdge(n, handle) = 0 THEN Null ELSE memo[edges[AppInEdge(n, handle)].source].v

\* the promises the rule of n awaits have all settled
AppInputsSettled(n) ==
    \A h \in AwaitedPorts(nodes[n].type) :
        IF AppInEdge(n, h) = 0 THEN TRUE
        ELSE memo[edges[AppInEdge(n, h)].source].st = "done"

\* a rule that reads its inputs without awaiting them
AppReadyAtOnce(n) == TRUE

\* the rule of n may continue past its awaits
AppReady(n) == AppInputsSettled(n)

\* the rule of a Range, Transform or Composite node runs to its end
AppResolve(n) ==
    /\ status = "running" /\ ev = "app" /\ stack = << >>
    /\ memo[n].st = "pending"
    /\ AppReady(n)
    /\ LET ty == nodes[n].type
           a  == AppInput(n, IF ty = "composite" THEN "A" ELSE "")
           b  == IF ty = "composite" THEN AppInput(n, "B") ELSE Null
           ro == RuleOutcome(n, a, b, AppInputsSettled(n))
       IN  /\ memo' = [ memo EXCEPT ![n] = Done(ro.out) ]
           /\ applyLog' = applyLog \cup ro.log
           /\ rangeCalls' = rangeCalls \cup ro.rangeCall
           /\ reads' = reads \cup
                { [ reader |-> n, source |-> edges[AppInEdge(n, h)].source,
                    v |-> AppInput(n, h) ] :
                  h \in { g \in AwaitedPorts(ty) : AppInEdge(n, g) # 0 } }
    /\ UNCHANGED << graphVars, cacheVars, status, result, calls, stack, execCount,
                    fetchLog >>
    /\ UNCHANGED sideVars

\* `const svg = await evalNode(previewId)` resumes
AppCommit ==
    /\ status = "running" /\ ev = "app" /\ stack = << >>
    /\ memo[target].st = "done"
    /\ status' = "done"
    /\ result' = memo[target].v
    /\ UNCHANGED << graphVars, cacheVars, calls, stack, memo, execCount, applyLog,
                    rangeCalls, reads, fetchLog >>
    /\ UNCHANGED sideVars

Next ==
    \/ Start
    \/ SvgEnter
    \/ SvgFetchDone
    \/ SvgResume
    \/ AppStep
    \/ \E n \in NodeIds : AppFetchDone(n)
    \/ \E n \in NodeIds : AppWorkerDone(n)
    \/ \E n \in NodeIds : AppResolve(n)
    \/ AppCommit

Spec == Init /\ [][Next]_vars

-----------------------------------------------------------------------------
(* fetchKanjiVGSvg, call by call: two tiers and svgCache *)

\* what the two locations serve for a codepoint id
RemoteText(c5) == << c5, "remote" >>
LocalText(c5)  == << c5, "local" >>

\* the body of an OK response that carries no text
EmptyBody == << << >>, "empty" >>

\* how one fetch may end: it throws, answers !res.ok, is aborted by the timer,
\* or answers OK with a body that is empty or is the file
FetchOutcomes == { "error", "notOK", "timeout", "empty", "text" }

\* tryFetch(url): null unless the response is OK, then res.text()
tryFetch(outcome, text) ==
    CASE outcome = "text"  -> text
      [] outcome = "empty" -> EmptyBody
      [] OTHER             -> NoText

\* a test that takes every answer for a failure
TruthyNever(t) == FALSE

\* `if (gh)`, `if (local)`: null and the empty string are falsy
Truthy(t) == t # NoText /\ t # EmptyBody

\* the write that drops the key instead of storing under it
SvgCacheSkip(m, c5, text) == m

\* svgCache.set(c5, text)
SvgCacheSet(m, c5, text) == [ m EXCEPT ![c5] = text ]

\* a lookup that never finds the key
SvgCacheNeverHas(m, c5) == FALSE

\* svgCache.has(c5)
SvgCacheHas(m, c5) == m[c5] # NoText

\* the characters resolved in the model
ResolveChars == { Kuchi, Hito, Nul }

\* fetchKanjiVGSvg(char) is called: code5, the cache, then the first tryFetch is issued
ResolveCall(c, ch) ==
    /\ resolves[c].pc \in { "idle", "returned", "threw" }
    /\ resolves[c].n < MaxResolves
    /\ LET call == [ IdleCall EXCEPT !.ch = ch, !.n = resolves[c].n + 1 ]
       IN  resolves' = [ resolves EXCEPT ![c] =
             IF code5Throws(ch)
             THEN [ call EXCEPT !.pc = "threw", !.ret = InvalidChar ]
             ELSE IF SvgCacheHas(svgText, code5(ch))
             THEN [ call EXCEPT !.pc = "returned", !.hit = TRUE,
                                !.ret = svgText[code5(ch)] ]
             ELSE [ call EXCEPT !.pc = "primary", !.fetches = 1 ] ]
    /\ UNCHANGED << svgText, succeeded >>
    /\ UNCHANGED << passVars, opCacheVars, rangeNodeVars, workerVars, previewVars, domVars,
                    notifyVars >>

\* `const gh = await tryFetch(githubSvgUrl(c5), 6000)` resumes
PrimaryEnds(c, outcome) ==
    /\ resolves[c].pc = "primary"
    /\ LET c5 == code5(resolves[c].ch)
           gh == tryFetch(outcome, RemoteText(c5))
       IN  IF Truthy(gh)
           THEN /\ svgText' = SvgCacheSet(svgText, c5, gh)
                /\ succeeded' = succeeded \cup { c5 }
                /\ resolves' = [ resolves EXCEPT ![c].pc = "returned", ![c].ret = gh,
                                                 ![c].primary = outcome ]
           ELSE \* tryFetch(localSvgUrl(c5), 6000) is issued
                /\ resolves' = [ resolves EXCEPT ![c].pc = "secondary",
                                                 ![c].primary = outcome,
                                                 ![c].fetches = @ + 1 ]
                /\ UNCHANGED << svgText, succeeded >>
    /\ UNCHANGED << passVars, opCacheVars, rangeNodeVars, workerVars, previewVars, domVars,
                    notifyVars >>

\* `const local = await tryFetch(localSvgUrl(c5), 6000)` resumes
SecondaryEnds(c, outcome) ==
    /\ resolves[c].pc = "secondary"
    /\ LET c5    == code5(resolves[c].ch)
           local == tryFetch(outcome, LocalText(c5))
       IN  IF Truthy(local)
           THEN /\ svgText' = SvgCacheSet(svgText, c5, local)
                /\ succeeded' = succeeded \cup { c5 }
                /\ resolves' = [ resolves EXCEPT ![c].pc = "returned", ![c].ret = local,
                                                 ![c].secondary = outcome ]
           ELSE \* throw new Error("KanjiVG not found (GitHub & local)")
                /\ resolves' = [ resolves EXCEPT ![c].pc = "threw", ![c].ret = NotFound,
                                                 ![c].secondary = outcome ]
                /\ UNCHANGED << svgText, succeeded >>
    /\ UNCHANGED << passVars, opCacheVars, rangeNodeVars, workerVars, previewVars, domVars,
                    notifyVars >>

ResolveInit == PassRest /\ ResolveRest /\ OpCacheRest /\ RangeNodeRest /\ WorkerRest
        /\ PreviewRest /\ DomRest /\ NotifyRest

ResolveNext ==
    \/ \E c \in Callers, ch \in ResolveChars : ResolveCall(c, ch)
    \/ \E c \in Callers, o \in FetchOutcomes : PrimaryEnds(c, o)
    \/ \E c \in Callers, o \in FetchOutcomes : SecondaryEnds(c, o)

SpecResolve == ResolveInit /\ [][ResolveNext]_vars

-----------------------------------------------------------------------------
(* CacheLayer: the three operation caches *)

RECURSIVE NumLen(_)
\* the number of characters of a number in a template string or String(n)
NumLen(n) ==
    IF n < 0 THEN 1 + NumLen(0 - n)
    ELSE IF n < 10 THEN 1 ELSE 1 + NumLen(n \div 10)

\* the number of g[data-stroke] groups that applyRangeBaked leaves with
\* display="none": those whose index lies outside [s, e]
HiddenGroups(count, s, e) == Cardinality({ n \in 1..count : n < s \/ n > e })

\* What the i-th step of a document contributes to the length of its text: the
\* source text and what preparation removes from and adds to it, one wrapper per
\* baked stroke, one display="none" per hidden group, the wrapper and its
\* numbers for a transform, the two opacity wrappers for an alpha composite.
StepLength(doc, i) ==
    LET t == doc[i]
        before == SubSeq(doc, 1, i - 1)
    IN  CASE t.op = "glyph" ->
                 SourceLength(t.g) - 300 * t.p[1]
                     + 16 * SourceStrokes(t.g) * t.p[2]
                     + 90 * SourceStrokes(t.g) * t.p[3]
          [] t.op = "bake" -> 26 * BakeCount(before)
          [] t.op = "range" -> 15 * HiddenGroups(BakeCount(before), t.p[1], t.p[2])
          [] t.op = "transform" ->
                 42 + NumLen(t.p[1]) + NumLen(t.p[2]) + NumLen(t.p[3]) + NumLen(t.p[4])
          [] t.op = "compositeAlpha" -> 40 + NumLen(t.p[1]) + NumLen(t.p[2])
          [] OTHER -> 0

RECURSIVE LengthUpTo(_, _)
LengthUpTo(doc, i) == IF i = 0 THEN 0 ELSE LengthUpTo(doc, i - 1) + StepLength(doc, i)

\* base.length
DocLength(doc) == LengthUpTo(doc, Len(doc))

\* base.slice(0, k) for k <= 64: every text serialised from a source file starts
\* with the file's prolog (XML declaration and licence comment), which is longer
\* than 64 characters and the same in every file
DocPrefix(doc, k) == << "prolog", k >>

cacheKeyRange(base, s, e) == << DocLength(base), s, e, DocPrefix(base, 64) >>

cacheKeyTransform(base, x, y, sx, sy) ==
    << DocLength(base), x, y, sx, sy, DocPrefix(base, 64) >>

cacheKeyComposite(a, b, aa, ab, sw) ==
    << DocLength(a), DocLength(b), aa, ab, IF sw THEN 1 ELSE 0,
       DocPrefix(a, 32), DocPrefix(b, 32) >>

\* Map.has / Map.get / Map.set on a cache kept as a set of << key, value >> pairs
CacheHas(cache, k) == \E en \in cache : en[1] = k
CacheGet(cache, k) == (CHOOSE en \in cache : en[1] = k)[2]
CacheSet(cache, k, v) == { en \in cache : en[1] # k } \cup { << k, v >> }

\* getXSvgCached: the hit if there is one, else the operation's output, stored.
\* lastCached keeps what the call returned beside what the operation returns on
\* the same inputs; everCached keeps every association ever stored.
CachedCall(name, cache, k, out) ==
    [ ret   |-> IF CacheHas(cache, k) THEN CacheGet(cache, k) ELSE out,
      cache |-> IF CacheHas(cache, k) THEN cache ELSE CacheSet(cache, k, out),
      ever  |-> IF CacheHas(cache, k) THEN everCached
                ELSE everCached \cup { << name, k, out >> } ]

\* loadBase: bakeStrokes(hideStrokeNumbers(raw)), what RangeSelectionNode keeps
\* as its base
Baked(ch) == bakeStrokes(hideStrokeNumbers(RawSvg(code5(ch))))

\* The inputs of the cached calls of the model.  The range cache is called with
\* the bases of RangeSelectionNode; the other two with what evalNodeSvg returns
\* for the node upstream, here a Range node behind the Glyph of Kuchi.
RangeBases == { Baked(Hito).svg, Baked(Iru).svg }
RangeArgs == { << 1, 1 >>, << 2, 2 >> }
CachedInputs ==
    { applyRangeBaked(bakeStrokes(PreparedSvg(Kuchi)).svg, r[1], r[2]) : r \in RangeArgs }
TransformArgs == { << 10, 0, 100, 100 >> }
CompositeArgs == { << 100, 50, FALSE >> }

getRangeSvgCached(base, s, e) ==
    LET c == CachedCall("range", rangeSvgCache, cacheKeyRange(base, s, e),
                        applyRangeBaked(base, s, e))
    IN  /\ rangeSvgCache' = c.cache
        /\ everCached' = c.ever
        /\ lastCached' = [ op |-> "range", ret |-> c.ret,
                           plain |-> applyRangeBaked(base, s, e) ]
        /\ UNCHANGED << transformSvgCache, compositeSvgCache >>
        /\ UNCHANGED << passVars, resolveVars, rangeNodeVars, workerVars, previewVars, domVars,
                    notifyVars >>

getTransformSvgCached(base, x, y, sx, sy) ==
    LET c == CachedCall("transform", transformSvgCache,
                        cacheKeyTransform(base, x, y, sx, sy),
                        applyTransform(base, x, y, sx, sy))
    IN  /\ transformSvgCache' = c.cache
        /\ everCached' = c.ever
        /\ lastCached' = [ op |-> "transform", ret |-> c.ret,
                           plain |-> applyTransform(base, x, y, sx, sy) ]
        /\ UNCHANGED << rangeSvgCache, compositeSvgCache >>
        /\ UNCHANGED << passVars, resolveVars, rangeNodeVars, workerVars, previewVars, domVars,
                    notifyVars >>

getCompositeSvgCached(a, b, aa, ab, sw) ==
    LET c == CachedCall("composite", compositeSvgCache,
                        cacheKeyComposite(a, b, aa, ab, sw),
                        compositeAlpha(a, b, aa, ab, sw))
    IN  /\ compositeSvgCache' = c.cache
        /\ everCached' = c.ever
        /\ lastCached' = [ op |-> "composite", ret |-> c.ret,
                           plain |-> compositeAlpha(a, b, aa, ab, sw) ]
        /\ UNCHANGED << rangeSvgCache, transformSvgCache >>
        /\ UNCHANGED << passVars, resolveVars, rangeNodeVars, workerVars, previewVars, domVars,
                    notifyVars >>

\* rangeSvgCache.clear() of loadBase
ClearRangeCache ==
    /\ rangeSvgCache' = {}
    /\ lastCached' = [ op |-> "clear", ret |-> Null, plain |-> Null ]
    /\ UNCHANGED << transformSvgCache, compositeSvgCache, everCached >>
    /\ UNCHANGED << passVars, resolveVars, rangeNodeVars, workerVars, previewVars, domVars,
                    notifyVars >>

CacheInit == PassRest /\ ResolveRest /\ OpCacheRest /\ RangeNodeRest /\ WorkerRest
        /\ PreviewRest /\ DomRest /\ NotifyRest

CacheNext ==
    \/ \E base \in RangeBases, r \in RangeArgs : getRangeSvgCached(base, r[1], r[2])
    \/ \E base \in CachedInputs, t \in TransformArgs :
           getTransformSvgCached(base, t[1], t[2], t[3], t[4])
    \/ \E a \in CachedInputs, c \in CompositeArgs :
           getCompositeSvgCached(a, PreparedSvg(Hito), c[1], c[2], c[3])
    \/ ClearRangeCache

SpecCache == CacheInit /\ [][CacheNext]_vars

-----------------------------------------------------------------------------
(* RangeSelectionNode: the base, the sliders and the two effects *)

\* the bound of the model on loadBase calls in flight
MaxLoads == 1

\* the characters of the Glyph nodes that get connected to the Range node
RangeChars == { Kuchi, Hito }

\* rangeSvgCache.clear()
NotCleared(cache) == cache
Cleared(cache) == {}

\* getRangeSvgCached(baked.svg, s, e) on a given cache: the cache after the call and
\* the applyRangeBaked call it made, if it made one, with the count of the
\* document the call is applied to
RangeCall(cache, baked, s, e, by) ==
    LET k == cacheKeyRange(baked.svg, s, e)
    IN  IF CacheHas(cache, k)
        THEN [ cache |-> cache, calls |-> {} ]
        ELSE [ cache |-> CacheSet(cache, k, applyRangeBaked(baked.svg, s, e)),
               calls |-> { [ by |-> by, s |-> s, e |-> e, count |-> baked.count ] } ]

\* The effect of line 784 calling loadBase up to its first await: without a Glyph
\* upstream it drops the base at once, else it starts to fetch, holding the
\* start and end of the render it was created in.
StartLoad(node, inFlight) ==
    IF node.up = Empty
    THEN [ node  |-> [ node EXCEPT !.base = NoBase, !.count = 0 ],
           loads |-> inFlight ]
    ELSE [ node  |-> node,
           loads |-> inFlight \cup
                     { [ ch |-> node.up, start |-> node.start, end |-> node.end ] } ]

\* The slider effect (lines 791-801) on the state of the render
SliderEffect(node, cache) ==
    IF node.base = NoBase
    THEN [ cache |-> cache, calls |-> {} ]
    ELSE RangeCall(cache, node.base,
                   Min2(OrElse(node.start, 1), OrElse(node.end, OrElse(node.count, 1))),
                   Max2(OrElse(node.start, 1), OrElse(node.end, OrElse(node.count, 1))),
                   "effect")

\* The render after a change of the node's state: loadBase is a new callback when
\* the upstream, start or end changed and the effect of line 784 calls it; then
\* the slider effect runs when start, end or count changed.
Rendered(old, new, cache, inFlight, made) ==
    LET reload == << old.up, old.start, old.end >> # << new.up, new.start, new.end >>
        l == IF reload THEN StartLoad(new, inFlight) ELSE [ node |-> new, loads |-> inFlight ]
        slide == << old.start, old.end, old.count >> # << new.start, new.end, l.node.count >>
        ef == IF slide THEN SliderEffect(l.node, cache) ELSE [ cache |-> cache, calls |-> {} ]
    IN  /\ rangeNode' = l.node
        /\ loads' = l.loads
        /\ rangeSvgCache' = ef.cache
        /\ selectCalls' = made \cup ef.calls
        /\ UNCHANGED << transformSvgCache, compositeSvgCache, lastCached, everCached >>
        /\ UNCHANGED << passVars, workerVars, previewVars, domVars, notifyVars >>

\* an edge from a Glyph node of character ch replaces the input edge (ch = Empty:
\* the edge is removed)
Connect(ch) ==
    /\ ch # rangeNode.up
    /\ Cardinality(loads) < MaxLoads
    /\ Rendered(rangeNode, [ rangeNode EXCEPT !.up = ch ], rangeSvgCache, loads, {})
    /\ UNCHANGED resolveVars

\* the start slider (which = "start") or the end slider is moved to v
Slide(which, v) ==
    /\ v \in 1..Max2(1, rangeNode.count)
    /\ Cardinality(loads) < MaxLoads
    /\ Rendered(rangeNode,
                IF which = "start" THEN [ rangeNode EXCEPT !.start = OrElse(v, 1) ]
                                   ELSE [ rangeNode EXCEPT !.end = OrElse(v, 1) ],
                rangeSvgCache, loads, {})
    /\ UNCHANGED resolveVars

\* loadBase continues after `await fetchKanjiVGSvg(up.char)`: with the text (ok), or
\* in its catch block, which a text in svgCache rules out
LoadDone(l, ok) ==
    /\ l \in loads
    /\ ok \/ ~ SvgCacheHas(svgText, code5(l.ch))
    /\ svgText' = IF ok /\ ~ SvgCacheHas(svgText, code5(l.ch))
                  THEN SvgCacheSet(svgText, code5(l.ch), RemoteText(code5(l.ch)))
                  ELSE svgText
    /\ UNCHANGED << resolves, succeeded >>
    /\ IF ~ ok
       THEN Rendered(rangeNode, [ rangeNode EXCEPT !.base = NoBase, !.count = 0 ],
                     rangeSvgCache, loads \ { l }, {})
       ELSE LET baked == Baked(l.ch)
                c == Max2(1, OrElse(baked.count, countStrokes(baked.svg)))
                sVal == Min2(OrElse(l.start, 1), OrElse(l.end, c))
                eVal == Max2(OrElse(l.start, 1), OrElse(l.end, c))
                call == RangeCall(Cleared(rangeSvgCache), baked, sVal, eVal, "loadBase")
            IN  Rendered(rangeNode,
                         [ rangeNode EXCEPT
                             !.base = baked,
                             !.last = baked,
                             !.prev = rangeNode.last,
                             !.count = c,
                             !.start = Min2(Max2(1, OrElse(rangeNode.start, 1)), c),
                             !.end = Min2(Max2(1, OrElse(rangeNode.end, c)), c) ],
                         call.cache, loads \ { l }, call.calls)

RangeInit == PassRest /\ ResolveRest /\ OpCacheRest /\ RangeNodeRest /\ WorkerRest
        /\ PreviewRest /\ DomRest /\ NotifyRest

RangeNext ==
    \/ \E ch \in RangeChars \cup { Empty } : Connect(ch)
    \/ \E which \in { "start", "end" }, v \in 1..3 : Slide(which, v)
    \/ \E l \in loads, ok \in BOOLEAN : LoadDone(l, ok)

SpecRange == RangeInit /\ [][RangeNext]_vars

-----------------------------------------------------------------------------
(* WorkerBackend: callWorker, the worker and the KanjiNode effect *)

\* the bounds of the model on the runs of the KanjiNode effect and on the
\* messages without a pending id handed to the main thread's handler
MaxEffects == 2
MaxStrays == 1

\* the values of data.char of the KanjiNode
WorkerChars == { Kuchi, Hito, TwoCps }

\* the outcomes of evalInWorker: a text, or an exception
WorkerOutcomes == { "svg", "throws" }

\* `!char || [...String(char)].length !== 1`
OneChar(ch) == Len(ch) = 1

\* _pending.get(reqId) of the main thread's handler
AlwaysPending(p, id) == TRUE
IsPending(p, id) == id \in p

\* self.onmessage of the worker: what it posts for request id after evalInWorker
\* ended with outcome out; `svg` stays null when evalInWorker throws
PostsUnlessThrown(id, ch, out) ==
    IF out = "throws" THEN {}
    ELSE { [ reqId |-> id, svg |-> WorkerKanjiSvg(ch), delivered |-> FALSE ] }
Posts(id, ch, out) ==
    { [ reqId |-> id,
        svg |-> IF out = "throws" THEN Null ELSE WorkerKanjiSvg(ch),
        delivered |-> FALSE ] }

\* callWorker({ type: "kanji", data: { char, hideNumbers: true } }) by run i of the
\* effect: `_reqId++`, _pending.set, postMessage
callWorker(i, run) ==
    /\ effects' = [ effects EXCEPT ![i] = [ run EXCEPT !.pc = "worker", !.req = reqId ] ]
    /\ reqId' = reqId + 1
    /\ pending' = pending \cup { reqId }
    /\ toWorker' = toWorker \cup { [ reqId |-> reqId, ch |-> run.ch ] }
    /\ UNCHANGED << fromWorker, resolved >>

\* data.char becomes ch: the cleanup of the run before sets its `alive` to false
\* (line 678), and the effect runs again, up to its guard or to the await of
\* getPreparedSvg
EffectRun(ch) ==
    /\ Len(effects) < MaxEffects
    /\ IF Len(effects) = 0 THEN TRUE ELSE effects[Len(effects)].ch # ch
    /\ effects' =
           [ i \in DOMAIN effects |-> [ effects[i] EXCEPT !.alive = FALSE ] ] \o
           << [ ch |-> ch, alive |-> TRUE, req |-> 0,
                pc |-> IF OneChar(ch) THEN "primary" ELSE "done",
                primary |-> "none",
                shown |-> IF OneChar(ch) THEN "none" ELSE "null" ] >>
    /\ UNCHANGED << reqId, pending, toWorker, fromWorker, resolved >>
    /\ UNCHANGED << passVars, resolveVars, opCacheVars, rangeNodeVars, previewVars, domVars,
                    notifyVars >>

\* `await getPreparedSvg(char, true)` of run i ends: with the text (ok), or with an
\* exception.  With the text the run returns only `if (alive)`; otherwise, as
\* after an exception, control reaches callWorker.
PrimaryDone(i, ok) ==
    /\ i \in DOMAIN effects
    /\ effects[i].pc = "primary"
    /\ LET run == [ effects[i] EXCEPT !.primary = IF ok THEN "ok" ELSE "threw" ]
       IN  IF ok /\ run.alive
           THEN /\ effects' = [ effects EXCEPT
                                  ![i] = [ run EXCEPT !.pc = "done", !.shown = "prepared" ] ]
                /\ UNCHANGED << reqId, pending, toWorker, fromWorker, resolved >>
           ELSE callWorker(i, run)
    /\ UNCHANGED << passVars, resolveVars, opCacheVars, rangeNodeVars, previewVars, domVars,
                    notifyVars >>

\* the worker's self.onmessage for one request: evalInWorker ends with outcome
\* out and the response is posted
WorkerStep(msg, out) ==
    /\ msg \in toWorker
    /\ toWorker' = toWorker \ { msg }
    /\ fromWorker' = fromWorker \cup Posts(msg.reqId, msg.ch, out)
    /\ UNCHANGED << reqId, pending, resolved, effects >>
    /\ UNCHANGED << passVars, resolveVars, opCacheVars, rangeNodeVars, previewVars, domVars,
                    notifyVars >>

\* what `resolve(svg ?? null)` continues: the run that awaits request id shows the
\* response, or the placeholder for null, if it is alive
Continued(id, svg) ==
    [ i \in DOMAIN effects |->
        IF effects[i].req = id /\ effects[i].pc = "worker"
        THEN [ effects[i] EXCEPT
                 !.pc = "done",
                 !.shown = IF ~ effects[i].alive THEN effects[i].shown
                           ELSE IF svg # Null THEN "worker" ELSE "fallback" ]
        ELSE effects[i] ]

\* w.onmessage of the main thread on a message { reqId: id, svg }
OnMessage(id, svg) ==
    IF IsPending(pending, id)
    THEN /\ pending' = pending \ { id }
         /\ resolved' = [ resolved EXCEPT
                            !.log = Append(@, [ reqId |-> id, svg |-> svg ]) ]
         /\ effects' = Continued(id, svg)
    ELSE /\ resolved' = [ resolved EXCEPT !.strays = @ + 1 ]
         /\ UNCHANGED << pending, effects >>

\* a response of the worker arrives
Deliver(r) ==
    /\ r \in fromWorker
    /\ ~ r.delivered
    /\ fromWorker' = (fromWorker \ { r }) \cup { [ r EXCEPT !.delivered = TRUE ] }
    /\ OnMessage(r.reqId, r.svg)
    /\ UNCHANGED << reqId, toWorker >>
    /\ UNCHANGED << passVars, resolveVars, opCacheVars, rangeNodeVars, previewVars, domVars,
                    notifyVars >>

\* the handler is handed a message whose id is not pending: one without data
\* (`e.data || {}`, id 0 here, `svg ?? null`) or with an id resolved before
Stray(id) ==
    /\ resolved.strays < MaxStrays
    /\ id \notin pending
    /\ OnMessage(id, Null)
    /\ UNCHANGED << reqId, toWorker, fromWorker >>
    /\ UNCHANGED << passVars, resolveVars, opCacheVars, rangeNodeVars, previewVars, domVars,
                    notifyVars >>

WorkerInit == PassRest /\ ResolveRest /\ OpCacheRest /\ RangeNodeRest /\ WorkerRest
        /\ PreviewRest /\ DomRest /\ NotifyRest

WorkerNext ==
    \/ \E ch \in WorkerChars : EffectRun(ch)
    \/ \E i \in 1..MaxEffects, ok \in BOOLEAN : PrimaryDone(i, ok)
    \/ \E msg \in toWorker, out \in WorkerOutcomes : WorkerStep(msg, out)
    \/ \E r \in fromWorker : Deliver(r)
    \/ \E id \in 0..(reqId - 1) : Stray(id)

SpecWorker == WorkerInit /\ [][WorkerNext]_vars

\* The worker handles every message it receives and the main thread every
\* response posted to it: both are event loops that take each queued message.
SpecWorkerFair ==
    /\ SpecWorker
    /\ \A id \in 1..(MaxEffects + 1) :
           /\ WF_vars(\E msg \in toWorker, out \in WorkerOutcomes :
                          msg.reqId = id /\ WorkerStep(msg, out))
           /\ WF_vars(\E r \in fromWorker : r.reqId = id /\ Deliver(r))

-----------------------------------------------------------------------------
(* The preview: App's evaluation effect, a node's refresh, rafDebounce *)

\* the bounds of the model on the changes of the evaluation inputs and on the
\* calls of the rafDebounce wrapper
MaxEdits == 2
MaxWrapperCalls == 2

\* the arguments the wrapper is called with
WrapperArgs == { 1, 2 }

\* cancelAnimationFrame(raf) on the frame callbacks requested
NotCancelled(requested, id) == requested
Cancelled(requested, id) == { cb \in requested : cb.id # id }

\* The evaluation inputs (nodes, edges, previewId, evalTick; for the node its
\* source and parameters) change.  The cleanup of App's effect clears the timer
\* of the run before and sets its `cancelled`; the new run sets a timer of 80
\* ms.  The node's refresh callback is new as well and its effect calls it: a
\* new refresh pass starts at once.
Edit ==
    /\ gen < MaxEdits
    /\ gen' = gen + 1
    /\ appRuns' =
           [ g \in DOMAIN appRuns |->
               IF g = gen
               THEN [ appRuns[g] EXCEPT
                        !.cancelled = TRUE,
                        !.st = IF @ = "scheduled" THEN "cleared" ELSE @ ]
               ELSE appRuns[g] ] \o
           << [ st |-> "scheduled", cancelled |-> FALSE, svg |-> FALSE ] >>
    /\ refreshes' = refreshes \o << [ st |-> "running", svg |-> FALSE ] >>
    /\ UNCHANGED << shown, raf >>
    /\ UNCHANGED << passVars, resolveVars, opCacheVars, rangeNodeVars, workerVars, domVars,
                    notifyVars >>

\* the timer of run g expires: the pass of run g starts
TimerFires(g) ==
    /\ g \in DOMAIN appRuns
    /\ appRuns[g].st = "scheduled"
    /\ appRuns' = [ appRuns EXCEPT ![g].st = "running" ]
    /\ UNCHANGED << gen, refreshes, shown, raf >>
    /\ UNCHANGED << passVars, resolveVars, opCacheVars, rangeNodeVars, workerVars, domVars,
                    notifyVars >>

\* `await evalNode(previewId)` of run g ends, with an artifact (svg) or with null:
\* `if (!cancelled) { if (svg) setOutputs(...) }`, and with null the preview is
\* kept as it is
PassDone(g, svg) ==
    /\ g \in DOMAIN appRuns
    /\ appRuns[g].st = "running"
    /\ appRuns' = [ appRuns EXCEPT ![g].st = "finished", ![g].svg = svg ]
    /\ shown' = IF ~ appRuns[g].cancelled /\ svg
                THEN [ shown EXCEPT !.outputs = [ ver |-> g, svg |-> TRUE, by |-> "app" ] ]
                ELSE shown
    /\ UNCHANGED << gen, refreshes, raf >>
    /\ UNCHANGED << passVars, resolveVars, opCacheVars, rangeNodeVars, workerVars, domVars,
                    notifyVars >>

\* `await evalNodeSvg(...)` of refresh pass g of the previewed Transform or
\* Composite node ends: setImgSrc, and with an artifact the node-preview event,
\* whose listener in App sets outputs[previewId]
RefreshDone(g, svg) ==
    /\ g \in DOMAIN refreshes
    /\ refreshes[g].st = "running"
    /\ refreshes' = [ refreshes EXCEPT ![g].st = "finished", ![g].svg = svg ]
    /\ shown' = [ imgSrc  |-> [ ver |-> g, svg |-> svg, by |-> "node" ],
                  outputs |-> IF svg THEN [ ver |-> g, svg |-> TRUE, by |-> "node" ]
                                     ELSE shown.outputs ]
    /\ UNCHANGED << gen, appRuns, raf >>
    /\ UNCHANGED << passVars, resolveVars, opCacheVars, rangeNodeVars, workerVars, domVars,
                    notifyVars >>

\* the wrapper returned by rafDebounce(fn) is called with argument a
WrapperCall(a) ==
    /\ raf.next <= MaxWrapperCalls
    /\ raf' = [ raf EXCEPT
                  !.pending = (IF raf.id # 0 THEN Cancelled(raf.pending, raf.id)
                                             ELSE raf.pending)
                              \cup { [ id |-> raf.next, a |-> a ] },
                  !.id = raf.next,
                  !.next = @ + 1,
                  !.last = a,
                  !.burst = @ + 1 ]
    /\ UNCHANGED << gen, appRuns, refreshes, shown >>
    /\ UNCHANGED << passVars, resolveVars, opCacheVars, rangeNodeVars, workerVars, domVars,
                    notifyVars >>

RECURSIVE RunAll(_, _)
\* the callbacks of a frame run in the order they were requested: fn(...a) each
RunAll(ran, requested) ==
    IF requested = {} THEN ran
    ELSE LET cb == CHOOSE c \in requested : \A d \in requested : c.id <= d.id
         IN  RunAll(Append(ran, cb.a), requested \ { cb })

\* the animation frame fires
Frame ==
    /\ raf.pending # {}
    /\ raf' = [ raf EXCEPT !.ran = RunAll(@, raf.pending), !.pending = {}, !.burst = 0 ]
    /\ UNCHANGED << gen, appRuns, refreshes, shown >>
    /\ UNCHANGED << passVars, resolveVars, opCacheVars, rangeNodeVars, workerVars, domVars,
                    notifyVars >>

PreviewInit ==
    PassRest /\ ResolveRest /\ OpCacheRest /\ RangeNodeRest /\ WorkerRest
        /\ PreviewRest /\ DomRest /\ NotifyRest

PreviewNext ==
    \/ Edit
    \/ \E g \in 1..MaxEdits : TimerFires(g)
    \/ \E g \in 1..MaxEdits, svg \in BOOLEAN : PassDone(g, svg)
    \/ \E g \in 1..MaxEdits, svg \in BOOLEAN : RefreshDone(g, svg)
    \/ \E a \in WrapperArgs : WrapperCall(a)
    \/ Frame

SpecPreview == PreviewInit /\ [][PreviewNext]_vars

-----------------------------------------------------------------------------
(* Documents as element trees: bakeStrokes, applyRangeBaked, annotateStrokes,
   applyRange and composite, element by element *)

\* the stroke index of an element without an id ending in -sN, and the value of
\* data-stroke of an element without that attribute
NoIndex == -1

DRAW_TAGS == { "path", "polyline", "line", "circle", "ellipse", "rect", "polygon" }

\* the elements annotateStrokes and applyRange select: path, polyline, line
LeafTags == { "path", "polyline", "line" }

\* the id prefixes of the elements removed as noise
NoisePrefixes ==
    { "kvg:StrokeNumbers_", "kvg:Numbers_", "kvg:Grid_", "kvg:Guideline_" }

StrokePathsPrefix == "kvg:StrokePaths_"

BakedGroupId == "__baked_strokes__"

\* An element: its tag; pre, the start of its id ("" without id); n, the index
\* of an id ending in -sN; ds, data-stroke; ig, data-ignore="1"; hid,
\* display="none"; op, its opacity in hundredths (100 without the attribute);
\* tf, the x, y, sx, sy of its transform, the scales in hundredths (<< >>
\* without the attribute); col, whether forceStrokeColor has set its stroke
\* attributes; kids, its child elements in order.
Elem(tag, pre, n, kids) ==
    [ tag |-> tag, pre |-> pre, n |-> n, ds |-> NoIndex, ig |-> FALSE,
      hid |-> FALSE, op |-> 100, tf |-> << >>, col |-> FALSE, kids |-> kids ]

\* A text: root, whether it holds an <svg> element; ser, whether it is the
\* output of XMLSerializer (a fetched text is not); norm, whether the root
\* carries the normalised width, height, viewBox and aspect attributes; kids,
\* the child elements of the root.
Text(ser, norm, kids) == [ root |-> TRUE, ser |-> ser, norm |-> norm, kids |-> kids ]

\* a text without <svg> element (an error page, a parse error)
NoSvg == [ root |-> FALSE, ser |-> FALSE, norm |-> FALSE, kids |-> << >> ]

RECURSIVE RemoveNoise(_)
\* querySelectorAll of the four noise prefixes, n.remove() on each
RemoveNoise(kids) ==
    IF kids = << >> THEN << >>
    ELSE LET h == Head(kids)
         IN  IF h.pre \in NoisePrefixes THEN RemoveNoise(Tail(kids))
             ELSE << [ h EXCEPT !.kids = RemoveNoise(h.kids) ] >>
                     \o RemoveNoise(Tail(kids))

RECURSIVE Carriers(_)
\* querySelectorAll("[id]") in document order, kept when the id ends in -sN
Carriers(kids) ==
    IF kids = << >> THEN << >>
    ELSE LET h == Head(kids)
         IN  (IF h.pre # "" /\ h.n # NoIndex THEN << h >> ELSE << >>)
                 \o Carriers(h.kids) \o Carriers(Tail(kids))

RECURSIVE Drawables(_)
\* pushAllDrawables: the TreeWalker visits the root and its descendants in
\* document order; cloneNode(true) of every element with a tag of DRAW_TAGS
Drawables(kids) ==
    IF kids = << >> THEN << >>
    ELSE LET h == Head(kids)
         IN  (IF h.tag \in DRAW_TAGS THEN << h >> ELSE << >>)
                 \o Drawables(h.kids) \o Drawables(Tail(kids))

RECURSIVE Bucket(_, _)
\* bucket.get(n) after the loop over the carriers: the clones pushed by every
\* carrier of index n, in the order of the carriers
Bucket(carriers, n) ==
    IF carriers = << >> THEN << >>
    ELSE (IF Head(carriers).n = n THEN Drawables(<< Head(carriers) >>) ELSE << >>)
             \o Bucket(Tail(carriers), n)

RECURSIVE HasStrokePaths(_)
HasStrokePaths(kids) ==
    IF kids = << >> THEN FALSE
    ELSE Head(kids).pre = StrokePathsPrefix
             \/ HasStrokePaths(Head(kids).kids) \/ HasStrokePaths(Tail(kids))

RECURSIVE HideStrokePaths(_)
\* doc.querySelector('[id^="kvg:StrokePaths_"]'): the first in document order
\* gets display="none"
HideStrokePaths(kids) ==
    IF kids = << >> THEN << >>
    ELSE LET h == Head(kids)
         IN  IF h.pre = StrokePathsPrefix
             THEN << [ h EXCEPT !.hid = TRUE ] >> \o Tail(kids)
             ELSE IF HasStrokePaths(h.kids)
             THEN << [ h EXCEPT !.kids = HideStrokePaths(h.kids) ] >> \o Tail(kids)
             ELSE << h >> \o HideStrokePaths(Tail(kids))

RECURSIVE Ascending(_)
\* [...bucket.keys()].sort((a,b)=>a-b)
Ascending(S) ==
    IF S = {} THEN << >>
    ELSE LET m == CHOOSE x \in S : \A y \in S : x <= y
         IN  << m >> \o Ascending(S \ { m })

\* <g data-stroke=n> holding the clones of bucket n
Wrapper(n, clones) ==
    [ Elem("g", "", NoIndex, clones) EXCEPT !.ds = n ]

\* bakeStrokes(svgText) on element trees: { svg, count }
bakeStrokesDom(doc) ==
    IF ~ doc.root THEN [ svg |-> doc, count |-> 0 ]
    ELSE LET kids     == RemoveNoise(doc.kids)
             carriers == Carriers(kids)
             nums     == Ascending({ carriers[i].n : i \in DOMAIN carriers })
             filled   == SelectSeq(nums, LAMBDA n : Bucket(carriers, n) # << >>)
             wrappers == [ i \in DOMAIN filled |->
                             Wrapper(filled[i], Bucket(carriers, filled[i])) ]
             count    == SetMax({ 0 } \cup { filled[i] : i \in DOMAIN filled })
             bakedGroup == Elem("g", BakedGroupId, NoIndex, wrappers)
         IN  [ svg   |-> Text(TRUE, TRUE, HideStrokePaths(kids) \o << bakedGroup >>),
               count |-> IF count # 0 THEN count ELSE Len(nums) ]

RECURSIVE RangeBakedKids(_, _, _)
\* both loops over g[data-stroke]: display="none" on each, removed again from
\* those with s <= n <= e
RangeBakedKids(kids, s, e) ==
    [ i \in DOMAIN kids |->
        LET x == kids[i]
        IN  [ x EXCEPT !.hid = IF x.tag = "g" /\ x.ds # NoIndex
                                THEN ~ (x.ds >= s /\ x.ds <= e) ELSE @,
                       !.kids = RangeBakedKids(x.kids, s, e) ] ]

\* applyRangeBaked(svgText, start, end) on element trees
applyRangeBakedDom(doc, start, end) ==
    IF ~ doc.root THEN doc
    ELSE Text(TRUE, doc.norm,
              RangeBakedKids(doc.kids, Min2(start, end), Max2(start, end)))

RECURSIVE AnnotateKids(_, _)
\* findStrokeIndex: the element itself, then its ancestors (up is the index of
\* the nearest ancestor with an id ending in -sN); every path, polyline and line
\* gets data-stroke, or data-ignore="1" when there is none
AnnotateKids(kids, up) ==
    [ i \in DOMAIN kids |->
        LET x   == kids[i]
            idx == IF x.pre # "" /\ x.n # NoIndex THEN x.n ELSE up
        IN  [ x EXCEPT !.ds = IF x.tag \in LeafTags /\ idx # NoIndex THEN idx ELSE @,
                       !.ig = IF x.tag \in LeafTags /\ idx = NoIndex THEN TRUE ELSE @,
                       !.kids = AnnotateKids(x.kids, idx) ] ]

\* annotateStrokes(svgText) on element trees, the main thread's and the worker's
annotateStrokesDom(doc) ==
    IF ~ doc.root THEN [ doc EXCEPT !.ser = TRUE ]
    ELSE Text(TRUE, TRUE, AnnotateKids(RemoveNoise(doc.kids), NoIndex))

\* a leaf that showEl is called for
ShownLeaf(x, start, end) ==
    x.tag \in LeafTags /\ x.ds # NoIndex /\ x.ds >= start /\ x.ds <= end

RECURSIVE HasShownLeaf(_, _, _)
HasShownLeaf(kids, start, end) ==
    IF kids = << >> THEN FALSE
    ELSE ShownLeaf(Head(kids), start, end)
             \/ HasShownLeaf(Head(kids).kids, start, end)
             \/ HasShownLeaf(Tail(kids), start, end)

RECURSIVE RangeKids(_, _, _)
\* the four loops of applyRange, as the display each element ends with (the
\* first loop also removes opacity from what carries data-stroke or data-ignore): removed
\* from the leaves in range and from their ancestors without data-ignore="1";
\* else "none" on the tagged leaves and on data-ignore="1"; else removed from
\* what carries data-stroke; else as it was
RangeKids(kids, start, end) ==
    [ i \in DOMAIN kids |->
        LET x == kids[i]
        IN  [ x EXCEPT !.hid =
                         IF ShownLeaf(x, start, end) THEN FALSE
                         ELSE IF HasShownLeaf(x.kids, start, end) /\ ~ x.ig THEN FALSE
                         ELSE IF x.tag \in LeafTags /\ x.ds # NoIndex THEN TRUE
                         ELSE IF x.ig THEN TRUE
                         ELSE IF x.ds # NoIndex THEN FALSE
                         ELSE @,
                       !.op = IF x.ds # NoIndex \/ x.ig THEN 100 ELSE @,
                       !.kids = RangeKids(x.kids, start, end) ] ]

\* applyRange(svgText, start, end) of the main thread on element trees
applyRangeDom(doc, start, end) ==
    IF ~ doc.root THEN doc
    ELSE Text(TRUE, doc.norm, RangeKids(doc.kids, start, end))

\* applyRange(svgText, start, end) of the worker: annotateStrokes first
workerApplyRangeDom(doc, start, end) ==
    LET annotated == annotateStrokesDom(doc)
    IN  IF ~ annotated.root THEN annotated
        ELSE Text(TRUE, annotated.norm, RangeKids(annotated.kids, start, end))

\* composite without its first line
compositeAlways(svgA, svgB) ==
    IF ~ svgA.root \/ ~ svgB.root THEN svgA
    ELSE Text(TRUE, svgA.norm, svgA.kids \o svgB.kids)

\* composite(svgA, svgB) of the main thread on element trees
compositeDom(svgA, svgB) ==
    IF svgA = svgB THEN svgA
    ELSE IF ~ svgA.root \/ ~ svgB.root THEN svgA
    ELSE Text(TRUE, svgA.norm, svgA.kids \o svgB.kids)

\* composite(svgA, svgB) of the worker
workerCompositeDom(svgA, svgB) ==
    IF svgA = svgB THEN svgA
    ELSE IF ~ svgA.root \/ ~ svgB.root THEN svgA
    ELSE Text(TRUE, svgA.norm, svgA.kids \o svgB.kids)

\* the root children applyTransform leaves where they are
KeepTags == { "style", "defs" }

\* applyTransform that moves every child of the root into the group
applyTransformAll(doc, x, y, sx, sy) ==
    IF ~ doc.root THEN doc
    ELSE Text(TRUE, doc.norm,
              << [ Elem("g", "", NoIndex, doc.kids) EXCEPT
                     !.tf = << OrElse(x, 0), OrElse(y, 0),
                               OrElse(sx, 100), OrElse(sy, 100) >> ] >>)

\* applyTransform(svgText, x, y, sx, sy) on element trees: `x || 0`, `sx || 1`
applyTransformDom(doc, x, y, sx, sy) ==
    IF ~ doc.root THEN doc
    ELSE LET toMove == SelectSeq(doc.kids, LAMBDA c : c.tag \notin KeepTags)
             kept   == SelectSeq(doc.kids, LAMBDA c : c.tag \in KeepTags)
             g      == [ Elem("g", "", NoIndex, toMove) EXCEPT
                           !.tf = << OrElse(x, 0), OrElse(y, 0),
                                     OrElse(sx, 100), OrElse(sy, 100) >> ]
         IN  Text(TRUE, doc.norm, kept \o << g >>)

\* compositeAlpha with the two groups appended in the other order
compositeAlphaReversed(svgA, svgB, alphaA, alphaB, swap) ==
    IF ~ svgA.root \/ ~ svgB.root THEN svgA
    ELSE LET gA == [ Elem("g", "", NoIndex, svgA.kids) EXCEPT !.op = clamp(alphaA) ]
             gB == [ Elem("g", "", NoIndex, svgB.kids) EXCEPT !.op = clamp(alphaB) ]
         IN  Text(TRUE, svgA.norm, IF swap THEN << gA, gB >> ELSE << gB, gA >>)

\* compositeAlpha(svgA, svgB, alphaA, alphaB, swap) on element trees
compositeAlphaDom(svgA, svgB, alphaA, alphaB, swap) ==
    IF ~ svgA.root \/ ~ svgB.root THEN svgA
    ELSE LET gA == [ Elem("g", "", NoIndex, svgA.kids) EXCEPT !.op = clamp(alphaA) ]
             gB == [ Elem("g", "", NoIndex, svgB.kids) EXCEPT !.op = clamp(alphaB) ]
         IN  Text(TRUE, svgA.norm, IF swap THEN << gB, gA >> ELSE << gA, gB >>)

RECURSIVE ColourKids(_)
\* stroke, stroke-width, linecap, linejoin, fill and vector-effect set on every
\* path, polyline and line
ColourKids(kids) ==
    [ i \in DOMAIN kids |->
        [ kids[i] EXCEPT !.col = IF kids[i].tag \in LeafTags THEN TRUE ELSE @,
                         !.kids = ColourKids(kids[i].kids) ] ]

\* forceStrokeColor that serialises whatever it parsed
forceStrokeColorAlways(doc) ==
    Text(TRUE, doc.norm, << Elem("style", "", NoIndex, << >>) >> \o ColourKids(doc.kids))

\* forceStrokeColor(svgText) on element trees: a <style> element inserted
\* before the first child of the root
forceStrokeColorDom(doc) ==
    IF ~ doc.root THEN doc
    ELSE Text(TRUE, doc.norm,
              << Elem("style", "", NoIndex, << >>) >> \o ColourKids(doc.kids))

RECURSIVE TaggedVisible(_, _)
\* step 1 of countStrokesRobust: data-stroke of the path, polyline and line
\* elements that carry it, without data-ignore="1" and with no display="none"
\* on themselves or above (up), when it is positive
TaggedVisible(kids, up) ==
    IF kids = << >> THEN {}
    ELSE LET h == Head(kids)
         IN  (IF h.tag \in LeafTags /\ h.ds # NoIndex /\ ~ h.ig /\ ~ (up \/ h.hid)
                 /\ h.ds > 0
              THEN { h.ds } ELSE {})
                 \cup TaggedVisible(h.kids, up \/ h.hid)
                 \cup TaggedVisible(Tail(kids), up)

RECURSIVE SuffixVisible(_, _, _)
\* step 2: for every path, polyline, line and g without data-ignore="1" and not
\* hidden, the index of the nearest id ending in -sN, the element's or an
\* ancestor's (car), when it is positive
SuffixVisible(kids, up, car) ==
    IF kids = << >> THEN {}
    ELSE LET h   == Head(kids)
             idx == IF h.pre # "" /\ h.n # NoIndex THEN h.n ELSE car
         IN  (IF h.tag \in LeafTags \cup { "g" } /\ ~ h.ig /\ ~ (up \/ h.hid)
                 /\ idx > 0
              THEN { idx } ELSE {})
                 \cup SuffixVisible(h.kids, up \/ h.hid, idx)
                 \cup SuffixVisible(Tail(kids), up, car)

\* countStrokesRobust that returns the number of distinct indices
countStrokesRobustSize(doc) ==
    IF ~ doc.root THEN 0
    ELSE LET tagged == TaggedVisible(doc.kids, FALSE)
         IN  Cardinality(IF tagged # {} THEN tagged
                         ELSE SuffixVisible(doc.kids, FALSE, NoIndex))

\* countStrokesRobust(svgText) on element trees
countStrokesRobustDom(doc) ==
    IF ~ doc.root THEN 0
    ELSE LET tagged     == TaggedVisible(doc.kids, FALSE)
             visibleNums == IF tagged # {} THEN tagged
                            ELSE SuffixVisible(doc.kids, FALSE, NoIndex)
         IN  IF visibleNums # {}
             THEN Max2(Cardinality(visibleNums), SetMax(visibleNums))
             ELSE 0

\* the number of operations applied to one document, and the largest stroke
\* index handed to a range operation
MaxOps == 3
MaxStroke == 3

\* The fetched source texts the operations are applied to
StrokePath(n) == Elem("path", "kvg:", n, << >>)

Label == Elem("text", "", NoIndex, << >>)

\* <g id="kvg:StrokePaths_..."><g id="kvg:...">...</g></g>
StrokePathsGroup(kids) ==
    Elem("g", StrokePathsPrefix, NoIndex, << Elem("g", "kvg:", NoIndex, kids) >>)

StrokeNumbersGroup == Elem("g", "kvg:StrokeNumbers_", NoIndex, << Label, Label >>)

Fetched(kids) == Text(FALSE, FALSE, kids)

\* two strokes and three strokes, with their stroke numbers
HitoDoc ==
    Fetched(<< StrokePathsGroup(<< StrokePath(1), StrokePath(2) >>), StrokeNumbersGroup >>)

KuchiDoc ==
    Fetched(<< StrokePathsGroup(<< StrokePath(1), StrokePath(2), StrokePath(3) >>),
               StrokeNumbersGroup >>)

\* ids ending in -s1 and -s3 only
GapDoc == Fetched(<< StrokePathsGroup(<< StrokePath(1), StrokePath(3) >>) >>)

\* a group and a path that both carry -s1; the group holds two drawables
SharedDoc ==
    Fetched(<< StrokePathsGroup(
                 << Elem("g", "kvg:", 1, << Elem("path", "", NoIndex, << >>),
                                            Elem("circle", "", NoIndex, << >>) >>),
                    StrokePath(1), StrokePath(2) >>) >>)

\* the carrier of -s2 holds no drawable
EmptyCarrierDoc ==
    Fetched(<< StrokePathsGroup(<< StrokePath(1), Elem("g", "kvg:", 2, << Label >>) >>) >>)

\* one carrier, of index 0
ZeroDoc == Fetched(<< StrokePathsGroup(<< StrokePath(0) >>) >>)

\* a path outside every carrier, next to the stroke paths
DecorationDoc ==
    Fetched(<< StrokePathsGroup(<< StrokePath(1), StrokePath(2) >>),
               Elem("path", "", NoIndex, << >>) >>)

\* no id ends in -sN
NoCarrierDoc == Fetched(<< StrokePathsGroup(<< Label >>) >>)

SourceDocs ==
    { HitoDoc, KuchiDoc, GapDoc, SharedDoc, EmptyCarrierDoc, ZeroDoc, DecorationDoc,
      NoCarrierDoc, NoSvg }

\* the second argument of composite: the first one again, or another text
Others(doc) == { doc, annotateStrokesDom(HitoDoc), NoSvg }

\* applied: the last call (op), its arguments (start, end; other, the second
\* text of composite), the count of the last bakeStrokes, the number of calls
Called(op, start, end, count, other) ==
    [ op |-> op, start |-> start, end |-> end, count |-> count, other |-> other,
      args |-> << >>, visible |-> 0, k |-> applied.k + 1 ]

\* annotateStrokes(raw), as getPreparedSvg and evalInWorker call it
Annotate ==
    /\ applied.op = "source"
    /\ applied.k < MaxOps
    /\ svgIn' = svgOut
    /\ svgOut' = annotateStrokesDom(svgOut)
    /\ applied' = Called("annotateStrokes", 0, 0, applied.count, svgOut)
    /\ UNCHANGED << passVars, resolveVars, opCacheVars, rangeNodeVars, workerVars,
                    previewVars, notifyVars >>

\* bakeStrokes(input)
Bake ==
    /\ applied.k < MaxOps
    /\ LET baked == bakeStrokesDom(svgOut)
       IN  /\ svgIn' = svgOut
           /\ svgOut' = baked.svg
           /\ applied' = Called("bakeStrokes", 0, 0, baked.count, svgOut)
    /\ UNCHANGED << passVars, resolveVars, opCacheVars, rangeNodeVars, workerVars,
                    previewVars, notifyVars >>

\* applyRangeBaked(baked.svg, s, e)
SelectBaked(s, e) ==
    /\ applied.op \in { "bakeStrokes", "applyRangeBaked" }
    /\ applied.k < MaxOps
    /\ svgIn' = svgOut
    /\ svgOut' = applyRangeBakedDom(svgOut, s, e)
    /\ applied' = Called("applyRangeBaked", s, e, applied.count, svgOut)
    /\ UNCHANGED << passVars, resolveVars, opCacheVars, rangeNodeVars, workerVars,
                    previewVars, notifyVars >>

\* applyRange(svgText, start, end) of the main thread, on an annotated text
SelectLeaves(s, e) ==
    /\ applied.op \in { "annotateStrokes", "applyRange" }
    /\ applied.k < MaxOps
    /\ svgIn' = svgOut
    /\ svgOut' = applyRangeDom(svgOut, s, e)
    /\ applied' = Called("applyRange", s, e, applied.count, svgOut)
    /\ UNCHANGED << passVars, resolveVars, opCacheVars, rangeNodeVars, workerVars,
                    previewVars, notifyVars >>

\* applyRange(input, start, end) of the worker
WorkerSelectLeaves(s, e) ==
    /\ applied.k < MaxOps
    /\ svgIn' = svgOut
    /\ svgOut' = workerApplyRangeDom(svgOut, s, e)
    /\ applied' = Called("workerApplyRange", s, e, applied.count, svgOut)
    /\ UNCHANGED << passVars, resolveVars, opCacheVars, rangeNodeVars, workerVars,
                    previewVars, notifyVars >>

\* composite(a, b) of the main thread
Composite(b) ==
    /\ applied.k < MaxOps
    /\ svgIn' = svgOut
    /\ svgOut' = compositeDom(svgOut, b)
    /\ applied' = Called("composite", 0, 0, applied.count, b)
    /\ UNCHANGED << passVars, resolveVars, opCacheVars, rangeNodeVars, workerVars,
                    previewVars, notifyVars >>

\* composite(a, b) of the worker
WorkerComposite(b) ==
    /\ applied.k < MaxOps
    /\ svgIn' = svgOut
    /\ svgOut' = workerCompositeDom(svgOut, b)
    /\ applied' = Called("workerComposite", 0, 0, applied.count, b)
    /\ UNCHANGED << passVars, resolveVars, opCacheVars, rangeNodeVars, workerVars,
                    previewVars, notifyVars >>

\* the x, y, sx, sy a Transform node passes (scales in hundredths): the
\* defaults, and a declared scale of 0
DomTransformArgs == { << 0, 0, 100, 100 >>, << 5, 0, 0, 50 >> }

\* the alphaA, alphaB (hundredths) and swap a Composite node passes
DomAlphaArgs == { << 100, 100, FALSE >>, << 150, 0 - 20, TRUE >> }

\* the number of operations App.evalNode chains on one text
MaxPaintOps == 2

\* the range branch of App.evalNode: bakeStrokes, the effective bounds,
\* applyRangeBaked
rangeNodeDom(doc, start, end) ==
    LET baked == bakeStrokesDom(doc)
        se    == EffectiveBoundsApp(start, end, baked.count)
    IN  [ count |-> baked.count, s |-> se[1], e |-> se[2],
          svg |-> applyRangeBakedDom(baked.svg, se[1], se[2]) ]

\* a Range node evaluated by App.evalNode on its input
Range(s, e) ==
    /\ applied.k < MaxPaintOps
    /\ LET r == rangeNodeDom(svgOut, s, e)
       IN  /\ svgIn' = svgOut
           /\ svgOut' = r.svg
           /\ applied' = Called("range", r.s, r.e, r.count, svgOut)
    /\ UNCHANGED << passVars, resolveVars, opCacheVars, rangeNodeVars, workerVars,
                    previewVars, notifyVars >>

\* composite(a, b), where an evaluator chains it
PaintComposite(b) ==
    /\ applied.k < MaxPaintOps
    /\ Composite(b)

\* applyTransform(input, x, y, sx, sy)
Transform(p) ==
    /\ applied.k < MaxPaintOps
    /\ svgIn' = svgOut
    /\ svgOut' = applyTransformDom(svgOut, p[1], p[2], p[3], p[4])
    /\ applied' = [ Called("applyTransform", 0, 0, applied.count, svgOut)
                      EXCEPT !.args = p ]
    /\ UNCHANGED << passVars, resolveVars, opCacheVars, rangeNodeVars, workerVars,
                    previewVars, notifyVars >>

\* compositeAlpha(a, b, alphaA, alphaB, swap)
CompositeAlpha(b, p) ==
    /\ applied.k < MaxPaintOps
    /\ svgIn' = svgOut
    /\ svgOut' = compositeAlphaDom(svgOut, b, p[1], p[2], p[3])
    /\ applied' = [ Called("compositeAlpha", 0, 0, applied.count, b)
                      EXCEPT !.args = p ]
    /\ UNCHANGED << passVars, resolveVars, opCacheVars, rangeNodeVars, workerVars,
                    previewVars, notifyVars >>

\* forceStrokeColor(svgText)
ForceStrokeColor ==
    /\ applied.k < MaxPaintOps
    /\ svgIn' = svgOut
    /\ svgOut' = forceStrokeColorDom(svgOut)
    /\ applied' = Called("forceStrokeColor", 0, 0, applied.count, svgOut)
    /\ UNCHANGED << passVars, resolveVars, opCacheVars, rangeNodeVars, workerVars,
                    previewVars, notifyVars >>

\* countStrokesRobust(svg), as the nodes call it on the text they show: the
\* text stays as it is
CountStrokesRobust ==
    /\ applied.k <= MaxOps
    /\ svgIn' = svgOut
    /\ svgOut' = svgOut
    /\ applied' = [ Called("countStrokesRobust", 0, 0, applied.count, svgOut)
                      EXCEPT !.visible = countStrokesRobustDom(svgOut),
                             !.k = MaxOps + 1 ]
    /\ UNCHANGED << passVars, resolveVars, opCacheVars, rangeNodeVars, workerVars,
                    previewVars, notifyVars >>

DomInit ==
    /\ PassRest /\ ResolveRest /\ OpCacheRest /\ RangeNodeRest /\ WorkerRest
    /\ PreviewRest /\ NotifyRest
    /\ svgOut \in SourceDocs
    /\ svgIn = svgOut
    /\ applied = [ op |-> "source", start |-> 0, end |-> 0, count |-> 0,
                   other |-> svgOut, args |-> << >>, visible |-> 0, k |-> 0 ]

DomNext ==
    \/ Annotate
    \/ Bake
    \/ \E s \in 1..MaxStroke, e \in 1..MaxStroke : SelectBaked(s, e)
    \/ \E s \in 1..MaxStroke, e \in 1..MaxStroke : SelectLeaves(s, e)
    \/ \E s \in 1..MaxStroke, e \in 1..MaxStroke : WorkerSelectLeaves(s, e)
    \/ \E b \in Others(svgOut) : Composite(b)
    \/ \E b \in Others(svgOut) : WorkerComposite(b)
    \/ CountStrokesRobust

SpecDom == DomInit /\ [][DomNext]_vars

PaintNext ==
    \/ \E s \in 1..MaxStroke, e \in 1..MaxStroke : Range(s, e)
    \/ \E p \in DomTransformArgs : Transform(p)
    \/ \E b \in Others(svgOut), p \in DomAlphaArgs : CompositeAlpha(b, p)
    \/ \E b \in Others(svgOut) : PaintComposite(b)
    \/ ForceStrokeColor

SpecPaint == DomInit /\ [][PaintNext]_vars

-----------------------------------------------------------------------------
(* 'node-preview' notifications: the handlers of TransformNode and          *)
(* CompositeNode, the only listeners that dispatch again                     *)

\* the nodes on screen: a Kanji node k, a Transform node t, a Composite node c
NotifyIds == { "k", "t", "c" }

\* sourceId of the Transform node and srcA, srcB of the Composite node: the
\* source of an incoming edge, "" without one; base, whether baseRef of the
\* Transform node holds a text it received before its edge was redrawn
Wiring(sourceId, srcA, srcB) ==
    [ sourceId |-> sourceId, srcA |-> srcA, srcB |-> srcB, base |-> FALSE ]

\* the graphs: a chain k -> t -> c; t and c feeding each other, with and
\* without the glyph as c's other input; t as its own input, drawn so from
\* the start or after t had shown the glyph; c as its own input, with and
\* without the glyph as its other input
Wirings ==
    { Wiring("k", "t", "k"), Wiring("k", "k", "t"), Wiring("k", "t", ""),
      Wiring("c", "k", "t"), Wiring("c", "t", "k"), Wiring("c", "t", ""),
      Wiring("t", "k", ""), Wiring("t", "k", "k"),
      [ Wiring("t", "k", "") EXCEPT !.base = TRUE ],
      Wiring("k", "c", "k"), Wiring("k", "k", "c"), Wiring("", "c", "") }

\* the listeners window holds, in the order the nodes registered them
Listeners == << "t", "c" >>

\* window.dispatchEvent(new CustomEvent('node-preview', { detail: { id } })):
\* every listener is called in turn, inside the call
Dispatch(id) == [ from |-> id, todo |-> Listeners ]

\* the dispatch in progress, its next listener taken off
Advanced == [ frames EXCEPT ![Len(frames)].todo = Tail(@) ]

\* evalNodeSvg(x) comes to the Composite node: x is that node, or the Transform
\* node fed by it
ReachesComposite(x) == x = "c" \/ (x = "t" /\ wire.sourceId = "c")

\* evalNodeSvg(x) never settles: the Composite rule asks for port B after an
\* await, when memo holds the pending promise of every node entered, and port
\* B leads back to the Composite node
Hangs(x) ==
    /\ ReachesComposite(x)
    /\ wire.srcB = "c" \/ (wire.srcB = "t" /\ wire.sourceId = "c")

RECURSIVE Yields(_, _)
\* evalNodeSvg(x, depth) resolves with a text: a glyph does; past depth 20 and
\* without a node the result is null; a Transform rule needs its input, a
\* Composite rule one of its two
Yields(x, depth) ==
    IF x = "" \/ depth > MaxDepth THEN FALSE
    ELSE IF x = "k" THEN TRUE
    ELSE IF x = "t" THEN Yields(wire.sourceId, depth + 1)
    ELSE Yields(wire.srcA, depth + 1) \/ Yields(wire.srcB, depth + 1)

\* a node has a text to dispatch: a Kanji node after loading; a Transform node
\* from refresh or a change of x, y, sx, sy, once evalNodeSvg(sourceId) has
\* given it one; a Composite node from refresh, once evalNodeSvg of both
\* sources has settled and one has given a text
CanEmit(id) ==
    IF id = "k" THEN TRUE
    ELSE IF id = "t"
    THEN wire.base \/ (~ Hangs(wire.sourceId) /\ Yields(wire.sourceId, 0))
    ELSE /\ ~ Hangs(wire.srcA) /\ ~ Hangs(wire.srcB)
         /\ Yields(wire.srcA, 0) \/ Yields(wire.srcB, 0)

\* a node dispatches the text it shows
Emit(id) ==
    /\ emitted = ""
    /\ CanEmit(id)
    /\ emitted' = id
    /\ frames' = << Dispatch(id) >>
    /\ UNCHANGED << wire, tasks, crashed >>
    /\ UNCHANGED << passVars, resolveVars, opCacheVars, rangeNodeVars, workerVars,
                    previewVars, domVars >>

\* a dispatch from inside a handler: one more call on the stack, a RangeError
\* in the handler when the stack is exhausted
Redispatch(id) ==
    IF Len(frames) >= StackLimit
    THEN /\ crashed' = TRUE
         /\ frames' = Advanced
    ELSE /\ frames' = Append(Advanced, Dispatch(id))
         /\ UNCHANGED crashed

\* the handler of the Transform node: not its source, return; else redraw and
\* dispatch its own text
TransformHandler ==
    /\ frames # << >>
    /\ frames[Len(frames)].todo # << >>
    /\ Head(frames[Len(frames)].todo) = "t"
    /\ IF frames[Len(frames)].from # wire.sourceId
       THEN frames' = Advanced /\ UNCHANGED crashed
       ELSE Redispatch("t")
    /\ UNCHANGED << wire, emitted, tasks >>
    /\ UNCHANGED << passVars, resolveVars, opCacheVars, rangeNodeVars, workerVars,
                    previewVars, domVars >>

\* the sources the Composite handler awaits evalNodeSvg of: those that did not
\* send the notification
Awaited(fromId) == { wire.srcA, wire.srcB } \ { "", fromId }

\* the handler of the Composite node: neither of its sources, return; else an
\* async function that takes the text received for the one source, awaits
\* evalNodeSvg for the other (for ever, when that never settles), and
\* dispatches the composite (or the one text)
CompositeHandler ==
    /\ frames # << >>
    /\ frames[Len(frames)].todo # << >>
    /\ Head(frames[Len(frames)].todo) = "c"
    /\ LET fromId == frames[Len(frames)].from
       IN  IF fromId # wire.srcA /\ fromId # wire.srcB
           THEN frames' = Advanced /\ UNCHANGED << tasks, crashed >>
           ELSE IF Awaited(fromId) # {}
           THEN /\ tasks' = IF \E x \in Awaited(fromId) : Hangs(x)
                            THEN tasks ELSE Append(tasks, "c")
                /\ frames' = Advanced
                /\ UNCHANGED crashed
           ELSE Redispatch("c") /\ UNCHANGED tasks
    /\ UNCHANGED << wire, emitted >>
    /\ UNCHANGED << passVars, resolveVars, opCacheVars, rangeNodeVars, workerVars,
                    previewVars, domVars >>

\* every listener has been called: dispatchEvent returns
DispatchReturns ==
    /\ frames # << >>
    /\ frames[Len(frames)].todo = << >>
    /\ frames' = SubSeq(frames, 1, Len(frames) - 1)
    /\ UNCHANGED << wire, emitted, tasks, crashed >>
    /\ UNCHANGED << passVars, resolveVars, opCacheVars, rangeNodeVars, workerVars,
                    previewVars, domVars >>

\* the stack is empty: the oldest suspended handler resumes after its await
\* and dispatches
HandlerResumes ==
    /\ frames = << >>
    /\ tasks # << >>
    /\ frames' = << Dispatch(Head(tasks)) >>
    /\ tasks' = Tail(tasks)
    /\ UNCHANGED << wire, emitted, crashed >>
    /\ UNCHANGED << passVars, resolveVars, opCacheVars, rangeNodeVars, workerVars,
                    previewVars, domVars >>

NotifyInit ==
    /\ PassRest /\ ResolveRest /\ OpCacheRest /\ RangeNodeRest /\ WorkerRest
    /\ PreviewRest /\ DomRest
    /\ wire \in Wirings
    /\ emitted = ""
    /\ frames = << >>
    /\ tasks = << >>
    /\ crashed = FALSE

NotifyNext ==
    \/ \E id \in NotifyIds : Emit(id)
    \/ TransformHandler
    \/ CompositeHandler
    \/ DispatchReturns
    \/ HandlerResumes

SpecNotify == NotifyInit /\ [][NotifyNext]_vars

\* the browser runs every listener of a dispatch and every resumed handler
SpecNotifyFair == SpecNotify /\ WF_vars(NotifyNext)

-----------------------------------------------------------------------------
(* Properties of a pass *)

\* the rule of node n of one of the three combining kinds
Combining(ty) == ty \in { "range", "transform", "composite" }

\* the deepest recursion a pass may reach when it is cut off past MaxDepth:
\* the frames of depth 0 .. MaxDepth and the one that returns null
CutOffFrames == MaxDepth + 2

\* C1: evaluating any target terminates even on a cyclic graph: in every
\* evaluator the recursion is cut off with a null result once the depth exceeds
\* 20, so no pass recurses past that depth, exhausts the call stack, or is left
\* waiting for itself.
C1_CyclesAreCutOff ==
    /\ Len(stack) <= CutOffFrames
    /\ status \notin { "overflow", "hung" }

\* C2 as stated: within one pass the rule of every node, on a cycle or not, is
\* executed at most once and every reader of a node receives the same result.
C2_OncePerPassAnyGraph ==
    /\ \A n \in NodeIds : execCount[n] <= 1
    /\ \A r1, r2 \in reads : r1.source = r2.source => r1.v = r2.v

\* C2: on a graph without a cycle, within one pass the rule of a node is
\* executed exactly once however many nodes read it, every reader receives that
\* same result, and the table holds only what the running pass put into it.
C2_OncePerPassAcyclic ==
    ~Cyclic =>
      /\ \A n \in NodeIds : execCount[n] <= 1
      /\ \A r \in reads : HasNode(r.source) => execCount[r.source] = 1
      /\ \A r1, r2 \in reads : r1.source = r2.source => r1.v = r2.v
      /\ \A n \in NodeIds : MemoHas(memo, n) /\ HasNode(n) => execCount[n] = 1

C2_FanOutRead ==
    /\ ~Cyclic /\ status = "done" /\ calls = MaxCalls
    /\ \E r1, r2 \in reads :
         /\ r1.source = r2.source /\ r1.reader # r2.reader
         /\ r1.v # Null /\ r1.v = r2.v
         /\ execCount[r1.source] = 1

\* C3: the operation of a Range, Transform or Composite node is applied only
\* after every input it declares has settled; a Composite never combines before
\* both port A and port B have settled.
C3_AppliedAfterInputs ==
    /\ \A l \in applyLog : l.settled
    /\ ev = "app" =>
         \A n \in DOMAIN nodes :
           Combining(nodes[n].type) /\ memo[n].st = "done" => AppInputsSettled(n)

C3_CompositeCombined ==
    /\ ev = "app" /\ status = "done"
    /\ \E l \in applyLog :
         /\ l.type = "composite" /\ l.a # Null /\ l.b # Null /\ l.a # l.b
         /\ l.out = compositeAlpha(l.a, l.b, nodes[l.node].data.alphaA,
                                   nodes[l.node].data.alphaB, nodes[l.node].data.swap)

\* C4: when both source tiers fail for a Glyph node, the pass neither throws nor
\* rejects: the node's artifact is null and the other branches evaluate as if
\* nothing had failed.
C4_FetchFailureIsNull ==
    status # NotFound

\* C5: a Glyph node whose character is not exactly one code point is never
\* fetched and its artifact is null.
C5_OneCodePointOnly ==
    \A n \in DOMAIN nodes :
      nodes[n].type = "kanji" /\ Len(nodes[n].data.char) # 1 =>
        /\ nodes[n].data.char \notin fetchLog
        /\ memo[n].st = "done" => memo[n].v = Null

\* C6: a Composite with exactly one of its inputs present evaluates to that
\* input unchanged, and to null with neither present, whether the absent input
\* is an open port or an upstream that evaluated to null.
C6_CompositePassThrough ==
    \A l \in applyLog :
      l.type = "composite" =>
        /\ l.a # Null /\ l.b = Null => l.out = l.a
        /\ l.a = Null /\ l.b # Null => l.out = l.b
        /\ l.a = Null /\ l.b = Null => l.out = Null

C6_ConnectedPortNull ==
    /\ status = "done" /\ target = "c"
    /\ AppInEdge("c", "A") # 0 /\ AppInEdge("c", "B") # 0
    /\ \E l \in applyLog :
         /\ l.node = "c" /\ l.a = Null /\ l.b # Null
         /\ l.out = l.b /\ result = l.b

\* C7: in every evaluator a Composite with both inputs present evaluates to
\* compositeAlpha of the two with the node's alphaA, alphaB and swap.
C7_CompositeBlends ==
    \A l \in applyLog :
      l.type = "composite" /\ l.a # Null /\ l.b # Null =>
        l.out = compositeAlpha(l.a, l.b, nodes[l.node].data.alphaA,
                               nodes[l.node].data.alphaB, nodes[l.node].data.swap)

\* C8: a Range node whose input bakes to a stroke count of zero evaluates to
\* null; no range selection is applied to a document of count 0.
C8_ZeroCountIsNull ==
    /\ \A rc \in rangeCalls : rc.count # 0
    /\ \A l \in applyLog :
         l.type = "range" /\ l.a # Null /\ BakeCount(l.a) = 0 => l.out = Null

\* C9: a Range or Transform node without an upstream artifact evaluates to
\* null, whether its port is open, its edge comes from a node that no longer
\* exists, or its upstream evaluated to null; so null runs down a unary chain.
C9_NullPropagates ==
    /\ \A l \in applyLog :
         l.type \in { "range", "transform" } /\ l.a = Null => l.out = Null
    /\ ev = "app" =>
         \A n \in DOMAIN nodes :
           /\ nodes[n].type \in { "range", "transform" }
           /\ memo[n].st = "done"
           /\ AppInput(n, "") = Null
           => memo[n].v = Null

C9_NullDownTheChain ==
    /\ status = "done" /\ result = Null
    /\ \E i \in DOMAIN edges : edges[i].source = Ghost
    /\ \E l1, l2 \in applyLog :
         /\ l1.type = "range" /\ l1.a = Null /\ l1.out = Null
         /\ l2.type = "transform" /\ l2.a = Null /\ l2.out = Null
         /\ \E i \in DOMAIN edges : edges[i].source = l1.node /\ edges[i].target = l2.node

\* c of the claim: a value clamped into [1, n]
ClampInto(v, n) == Max2(1, Min2(v, n))

\* C10 as stated: for every declared start and end and every count N >= 1 the
\* bounds handed to the range selection are the smaller and the larger of the
\* two declared values, each clamped into [1, N].
C10_DeclaredBoundsClamped ==
    \A rc \in rangeCalls :
      rc.count >= 1 =>
        /\ rc.s = Min2(ClampInto(rc.start, rc.count), ClampInto(rc.end, rc.count))
        /\ rc.e = Max2(ClampInto(rc.start, rc.count), ClampInto(rc.end, rc.count))

\* C10: for every count N >= 1, a declared start of 0 is taken as 1 and a
\* declared end of 0 is taken as N; the bounds handed to the range selection
\* are the smaller and the larger of the two values so read, each clamped into
\* [1, N].
C10_BoundsAfterDefaults ==
    \A rc \in rangeCalls :
      rc.count >= 1 =>
        LET st == IF rc.start = 0 THEN 1 ELSE rc.start
            en == IF rc.end = 0 THEN rc.count ELSE rc.end
        IN  /\ rc.s = Min2(ClampInto(st, rc.count), ClampInto(en, rc.count))
            /\ rc.e = Max2(ClampInto(st, rc.count), ClampInto(en, rc.count))

C10_EndZeroSelectsToLast ==
    \E rc \in rangeCalls :
      /\ rc.count >= 2 /\ rc.end = 0 /\ rc.start > 1
      /\ rc.s = Min2(rc.start, rc.count) /\ rc.e = rc.count

-----------------------------------------------------------------------------
(* Properties of fetchKanjiVGSvg *)

\* the ways an attempt ends without success that the claim names
NamedNonSuccess == { "error", "notOK", "timeout" }

\* the secondary location was attempted by caller c
SecondaryTried(c) == resolves[c].pc = "secondary" \/ resolves[c].secondary # "none"

\* the order of the tiers, for a given set of non-success outcomes
TierOrder(nonSuccess) ==
    \A c \in Callers :
      /\ resolves[c].pc = "primary" => ~SecondaryTried(c)
      /\ SecondaryTried(c) => resolves[c].primary \in nonSuccess
      /\ resolves[c].ret = NotFound =>
           resolves[c].primary \in nonSuccess /\ resolves[c].secondary \in nonSuccess
      /\ resolves[c].primary \notin nonSuccess => ~SecondaryTried(c)

\* C12 as stated: the primary location is tried first; the secondary location
\* is attempted only after the primary attempt ended in a network error, a
\* non-OK response or a timeout; NotFound only after both ended so; a primary
\* attempt that ended otherwise is never followed by a secondary attempt.
C12_SecondaryOnlyAfterNamedFailure == TierOrder(NamedNonSuccess)

\* C12: the primary location is tried first; the secondary location is
\* attempted only after the primary attempt ended in a network error, a non-OK
\* response, a timeout or an OK response with an empty body; NotFound only after
\* both attempts ended so; a primary attempt that returned text is never
\* followed by a secondary attempt.
C12_SecondaryOnlyAfterNoText == TierOrder(NamedNonSuccess \cup { "empty" })

C12_FallbackTaken ==
    \E c1, c2 \in Callers :
      /\ resolves[c1].pc = "returned" /\ resolves[c1].primary = "timeout"
      /\ resolves[c1].secondary = "text"
      /\ resolves[c1].ret = LocalText(code5(resolves[c1].ch))
      /\ resolves[c2].pc = "threw" /\ resolves[c2].ret = NotFound
      /\ resolves[c2].primary = "notOK" /\ resolves[c2].secondary = "error"

\* a call of fetchKanjiVGSvg is made by caller c in this step
CallMade(c) == resolves'[c].n = resolves[c].n + 1

\* C13: svgCache holds an entry for a codepoint id exactly when an earlier
\* resolve of that id succeeded; a failed resolve leaves the cache unchanged, a
\* resolve of an id without an entry starts at the primary location, and a
\* resolve after a success returns the cached text without any fetch.
C13_CachedExactlyOnSuccess ==
    /\ [](/\ \A c5 \in GlyphIds : svgText[c5] # NoText <=> c5 \in succeeded
          /\ \A c \in Callers : resolves[c].hit => resolves[c].fetches = 0)
    /\ [][\A c \in Callers :
            /\ resolves'[c].pc = "threw" /\ resolves[c].pc # "threw" => svgText' = svgText
            /\ CallMade(c) /\ ~code5Throws(resolves'[c].ch) =>
                 IF code5(resolves'[c].ch) \in succeeded
                 THEN /\ resolves'[c].pc = "returned"
                      /\ resolves'[c].fetches = 0
                      /\ resolves'[c].ret = svgText[code5(resolves'[c].ch)]
                 ELSE /\ resolves'[c].pc = "primary"
                      /\ resolves'[c].fetches = 1]_vars

C13_RetryThenHit ==
    \E c \in Callers :
      /\ resolves[c].n = MaxResolves /\ resolves[c].hit
      /\ resolves[c].pc = "returned" /\ resolves[c].ret # NoText
      /\ \E d \in Callers :
           /\ d # c /\ resolves[d].ch = resolves[c].ch
           /\ resolves[d].n = MaxResolves /\ ~resolves[d].hit
           /\ resolves[d].secondary = "text"

\* C14: under any interleaving of concurrent resolves, the text cached for a
\* codepoint id never changes once it is written, also when one caller
\* succeeded from the remote location and another from the local one.
C14_CachedTextImmutable ==
    [][\A c5 \in GlyphIds : svgText[c5] # NoText => svgText'[c5] = svgText[c5]]_vars

-----------------------------------------------------------------------------
(* Properties of the operation caches *)

\* C15: the cached operations are transparent: whatever cached calls came
\* before, a cached call returns exactly what the uncached operation returns on
\* the same document and parameters.
C15_CachedCallsTransparent == lastCached.ret = lastCached.plain

\* C16: a fingerprint that has once been associated with a value is never later
\* associated with a different value, whatever cached calls and range-cache
\* clears are made.
C16_EntriesMonotonic ==
    \A e1 \in everCached, e2 \in everCached :
        (e1[1] = e2[1] /\ e1[2] = e2[2]) => e1[3] = e2[3]

-----------------------------------------------------------------------------
(* Properties of RangeSelectionNode *)

\* C11: every applyRangeBaked call made by the Range node, from loadBase and from
\* the slider effect, satisfies 1 <= start <= end <= count for the count of the
\* document it is applied to, also right after the base changed to a glyph with
\* fewer strokes.
C11_SelectRangePrecondition ==
    \A c \in selectCalls : 1 <= c.s /\ c.s <= c.e /\ c.e <= c.count

-----------------------------------------------------------------------------
(* Properties of the worker backend *)

\* the requests resolved so far
ResolvedIds == { resolved.log[i].reqId : i \in DOMAIN resolved.log }

\* C18: request ids are issued strictly increasing and never again; whatever the
\* order of arrival, a request is resolved at most once and only by the
\* response that carries its id, it leaves the pending table when it is
\* resolved, and a message whose id is not pending changes nothing.
C18_RequestIdsCorrelate ==
    /\ [](/\ pending \subseteq 1..(reqId - 1)
          /\ pending \cap ResolvedIds = {}
          /\ \A i, j \in DOMAIN resolved.log :
                 resolved.log[i].reqId = resolved.log[j].reqId => i = j
          /\ \A i \in DOMAIN resolved.log :
                 \E r \in fromWorker :
                     /\ r.delivered
                     /\ r.reqId = resolved.log[i].reqId
                     /\ r.svg = resolved.log[i].svg)
    /\ [][/\ reqId' >= reqId
          /\ \A id \in pending' \ pending : id = reqId /\ reqId' > id
          /\ \A id \in pending \ pending' :
                 resolved'.log = Append(resolved.log, resolved'.log[Len(resolved'.log)])
                     /\ resolved'.log[Len(resolved'.log)].reqId = id
          /\ resolved'.strays # resolved.strays =>
                 /\ pending' = pending
                 /\ resolved'.log = resolved.log
                 /\ effects' = effects]_vars

\* two requests were resolved in the order opposite to their ids, and the handler
\* has seen a message without a pending id
C18_ResolvedOutOfOrder ==
    /\ Len(resolved.log) = 2
    /\ resolved.log[1].reqId = 2
    /\ resolved.log[2].reqId = 1
    /\ resolved.strays = 1

\* C19: every request sent to the worker is eventually resolved; the worker posts
\* exactly one response for each request it has handled, a null one when its
\* evaluation threw, and a null response resolves the request with null.
C19_EveryRequestResolved ==
    /\ \A id \in 1..MaxEffects : (id \in pending) ~> (id \in ResolvedIds /\ id \notin pending)
    /\ [](\A id \in 1..(reqId - 1) :
              Cardinality({ m \in toWorker : m.reqId = id })
                  + Cardinality({ r \in fromWorker : r.reqId = id }) = 1)
    /\ [](\A i \in DOMAIN resolved.log :
              \A r \in fromWorker :
                  r.reqId = resolved.log[i].reqId => resolved.log[i].svg = r.svg)

\* a request whose evaluation threw in the worker was resolved with null, and
\* the node that waited for it shows the placeholder
C19_NullResolved ==
    \E i \in DOMAIN resolved.log, k \in DOMAIN effects :
        /\ resolved.log[i].svg = Null
        /\ effects[k].req = resolved.log[i].reqId
        /\ effects[k].primary = "threw"
        /\ effects[k].shown = "fallback"

\* C20: the worker is called for a Glyph only after getPreparedSvg has thrown for
\* that request, never after it succeeded, also when the effect was superseded
\* while the fetch was in flight.
C20_WorkerOnlyAfterPrimaryThrew ==
    \A i \in DOMAIN effects : effects[i].req # 0 => effects[i].primary = "threw"

-----------------------------------------------------------------------------
(* Properties of the Glyph artifact *)

\* C21: the artifact a Glyph node gets through the worker fallback equals the one
\* the primary path produces for the same character and source: every artifact
\* of a Glyph node is the source with its numbers hidden, annotated, with the
\* stroke colour forced.
C21_WorkerGlyphEqualsPrimary ==
    \A n \in DOMAIN nodes :
        (ev = "app" /\ nodes[n].type = "kanji" /\ memo[n].st = "done" /\ memo[n].v # Null)
            => memo[n].v = PreparedSvg(nodes[n].data.char)

-----------------------------------------------------------------------------
(* Properties of the preview *)

\* C22: once a newer pass has been started, the result of an older pass is
\* discarded when it completes: what is published (outputs) or displayed
\* (imgSrc) is never replaced by the result of a pass older than the one that
\* wrote it, for App's pass and for the refresh pass of a node, in whatever
\* order the passes complete.
C22_StalePassDiscarded ==
    [][/\ shown'.outputs.ver >= shown.outputs.ver
       /\ shown'.imgSrc.ver >= shown.imgSrc.ver]_vars

\* C23: a scheduled pass of App whose inputs change again before its delay
\* expires never starts; after a burst of calls of an rafDebounce wrapper the
\* frame runs the wrapped function exactly once, with the arguments of the last
\* call.
C23_EditsCoalesced ==
    /\ [][\A g \in DOMAIN appRuns :
              /\ (appRuns[g].st = "scheduled" /\ gen' # gen) => appRuns'[g].st = "cleared"
              /\ appRuns[g].st = "cleared" => appRuns'[g].st = "cleared"]_vars
    /\ [][raf'.ran # raf.ran => raf'.ran = Append(raf.ran, raf.last)]_vars
    /\ [](Cardinality(raf.pending) <= 1)

\* a burst of two calls with different arguments ended in one run, with the
\* second argument, and a pass of App was cleared before it started
C23_BurstRanOnce ==
    /\ raf.next = 3
    /\ raf.ran = << 2 >>
    /\ \E g \in DOMAIN appRuns : appRuns[g].st = "cleared"

\* C24: when the latest evaluation of the preview target yields no artifact, the
\* target shows its placeholder: no artifact of an earlier pass is left as
\* outputs[previewId].
C24_NullShowsPlaceholder ==
    (gen >= 1 /\ appRuns[gen].st = "finished" /\ ~ appRuns[gen].svg
       /\ refreshes[gen].st = "finished" /\ ~ refreshes[gen].svg)
        => shown.outputs = NoArtifact

RECURSIVE Rows(_, _, _)
\* the elements of a forest in document order, each with up: an ancestor has
\* display="none", and upNd: an ancestor without data-ignore="1" has it
Rows(kids, up, upNd) ==
    IF kids = << >> THEN << >>
    ELSE LET h == Head(kids)
         IN  << [ tag |-> h.tag, pre |-> h.pre, n |-> h.n, ds |-> h.ds, ig |-> h.ig,
                  hid |-> h.hid, up |-> up, upNd |-> upNd ] >>
                 \o Rows(h.kids, up \/ h.hid, upNd \/ (h.hid /\ ~ h.ig))
                 \o Rows(Tail(kids), up, upNd)

RowsOf(doc) == Rows(doc.kids, FALSE, FALSE)

\* the g[data-stroke] groups of a document, in document order
StrokeGroups(doc) == SelectSeq(RowsOf(doc), LAMBDA r : r.tag = "g" /\ r.ds # NoIndex)

\* neither the element nor an ancestor has display="none"
Visible(r) == ~ r.hid /\ ~ r.up

VisibleGroups(doc) == SelectSeq(StrokeGroups(doc), Visible)

\* the stroke indices of the ids of a document
CarrierIndices(doc) ==
    { r.n : r \in { RowsOf(doc)[i] : i \in DOMAIN RowsOf(doc) } } \ { NoIndex }

InRange(n) == applied.start <= n /\ n <= applied.end

\* C25: after applyRangeBaked(s, e) on a baked document of count N, with
\* 1 <= s <= e <= N, exactly e-s+1 stroke groups are visible
C25_RangeLeavesWidthGroups ==
    (/\ applied.op = "applyRangeBaked"
     /\ 1 <= applied.start /\ applied.start <= applied.end
     /\ applied.end <= applied.count)
        => Len(VisibleGroups(svgOut)) = applied.end - applied.start + 1

\* C26: after applyRangeBaked(1, N) on a baked document of count N, every stroke
\* group is visible, as in the document bakeStrokes returned, and every element
\* tagged data-ignore="1" is hidden
C26_FullRangeShowsStrokesOnly ==
    (/\ applied.op = "applyRangeBaked"
     /\ applied.start = 1 /\ applied.end = applied.count)
        => /\ VisibleGroups(svgOut) = StrokeGroups(svgOut)
           /\ \A i \in DOMAIN RowsOf(svgOut) :
                  RowsOf(svgOut)[i].ig => ~ Visible(RowsOf(svgOut)[i])

\* C27: after applyRangeBaked, applyRange or the worker's applyRange with
\* start <= end, every element that carries data-stroke is hidden when its index
\* is outside [start, end], and otherwise has no display="none", neither itself
\* nor on an ancestor without data-ignore="1"
C27_VisibleIffInRange ==
    (/\ applied.op \in { "applyRangeBaked", "applyRange", "workerApplyRange" }
     /\ applied.start <= applied.end)
        => \A i \in DOMAIN RowsOf(svgOut) :
               LET r == RowsOf(svgOut)[i]
               IN  r.ds # NoIndex =>
                       IF InRange(r.ds) THEN ~ r.hid /\ ~ r.upNd ELSE ~ Visible(r)

\* C28: the count bakeStrokes returns is the largest stroke index of the ids of
\* its input; the number of distinct indices when none is positive; 0 when no id
\* carries one
C28_CountIsMaxIndex ==
    applied.op = "bakeStrokes" =>
        LET idx == CarrierIndices(svgIn)
        IN  applied.count = IF idx = {} THEN 0
                            ELSE IF SetMax(idx) > 0 THEN SetMax(idx)
                            ELSE Cardinality(idx)

\* C29: the document bakeStrokes returns holds one g[data-stroke] group for each
\* stroke index of the ids of its input and no other, in strictly ascending
\* order of data-stroke
C29_OneGroupPerIndex ==
    applied.op = "bakeStrokes" =>
        LET gs == StrokeGroups(svgOut)
        IN  /\ { gs[i].ds : i \in DOMAIN gs } = CarrierIndices(svgIn)
            /\ \A i, j \in DOMAIN gs : i < j => gs[i].ds < gs[j].ds

\* C30: composite(A, A) returns A, on the main thread and in the worker; for two
\* different texts, A holding an <svg> element, the result holds the children
\* of A's root followed by those of B's root, in their order
C30_CompositeIdentityAndOrder ==
    applied.op \in { "composite", "workerComposite" } =>
        IF applied.other = svgIn THEN svgOut = svgIn
        ELSE svgIn.root =>
                 svgOut.kids = svgIn.kids \o (IF applied.other.root
                                                THEN applied.other.kids ELSE << >>)

\* the worker's composite has returned its own argument, a text that an earlier
\* composite had appended the annotated two-stroke glyph to
C30_IdentityAfterAppend ==
    /\ applied.op = "workerComposite"
    /\ applied.other = svgIn
    /\ svgOut = svgIn
    /\ svgIn.ser
    /\ Len(svgIn.kids) >= 2
    /\ svgIn.kids[Len(svgIn.kids)] = annotateStrokesDom(HitoDoc).kids[1]

\* translate(0,0) scale(1,1)
IdentityTransform == << 0, 0, 100, 100 >>

RECURSIVE Paint(_, _, _)
\* what a text paints, in document order: every drawable with no display="none"
\* on itself or above, with the product of the opacities (hundredths) and the
\* transforms, outermost first, that it is drawn under
Paint(kids, op, tfs) ==
    IF kids = << >> THEN << >>
    ELSE LET h == Head(kids)
             o == (op * h.op) \div 100
             t == IF h.tf = << >> \/ h.tf = IdentityTransform
                  THEN tfs ELSE Append(tfs, h.tf)
         IN  (IF h.hid THEN << >>
              ELSE (IF h.tag \in DRAW_TAGS
                    THEN << [ tag |-> h.tag, pre |-> h.pre, n |-> h.n,
                              col |-> h.col, op |-> o, tf |-> t ] >>
                    ELSE << >>) \o Paint(h.kids, o, t))
                 \o Paint(Tail(kids), op, tfs)

PaintOf(doc) == IF doc.root THEN Paint(doc.kids, 100, << >>) ELSE << >>

\* C31 as stated: compositeAlpha(A, B, 1, 1, false) paints what composite(A, B)
\* paints, the same drawables in the same order at the same opacity, for all
\* texts A and B
C31_AlphaOneEqualsCompositeAll ==
    (applied.op = "compositeAlpha" /\ applied.args = << 100, 100, FALSE >>)
        => PaintOf(svgOut) = PaintOf(compositeDom(svgIn, applied.other))

\* C31: for two different texts A and B, compositeAlpha(A, B, 1, 1, false)
\* paints what composite(A, B) paints: the same drawables in the same order,
\* A's and then B's, at the same opacity
C31_AlphaOneEqualsComposite ==
    (/\ applied.op = "compositeAlpha"
     /\ applied.args = << 100, 100, FALSE >>
     /\ applied.other # svgIn)
        => PaintOf(svgOut) = PaintOf(compositeDom(svgIn, applied.other))

\* compositeAlpha(A, B, 1, 1, false) has joined two different texts that both
\* paint something, A being the result of an earlier operation
C31_TwoGlyphsJoined ==
    /\ applied.op = "compositeAlpha"
    /\ applied.args = << 100, 100, FALSE >>
    /\ applied.other # svgIn
    /\ svgIn.ser
    /\ PaintOf(svgIn) # << >>
    /\ PaintOf(applied.other) # << >>
    /\ PaintOf(svgIn) # PaintOf(applied.other)
    /\ PaintOf(svgOut) = PaintOf(svgIn) \o PaintOf(applied.other)

\* the opacity compositeAlpha gives a group, written out
ClampedAlpha(a) == IF a < 0 THEN 0 ELSE IF a > 100 THEN 100 ELSE a

\* C32: when A and B both hold an <svg> element, the root of
\* compositeAlpha(A, B, alphaA, alphaB, swap) has exactly two children: a group
\* holding A's former children with opacity clamp(alphaA, 0, 1) and a group
\* holding B's children with opacity clamp(alphaB, 0, 1), A's group first when
\* swap is false and B's first when it is true; both opacities lie in [0, 1]
C32_TwoGroupsClampedOrdered ==
    (applied.op = "compositeAlpha" /\ svgIn.root /\ applied.other.root) =>
        LET gA == [ tag |-> "g", kids |-> svgIn.kids,
                    op |-> ClampedAlpha(applied.args[1]) ]
            gB == [ tag |-> "g", kids |-> applied.other.kids,
                    op |-> ClampedAlpha(applied.args[2]) ]
            is(c, g) == c.tag = g.tag /\ c.kids = g.kids /\ c.op = g.op
        IN  /\ Len(svgOut.kids) = 2
            /\ IF applied.args[3]
               THEN is(svgOut.kids[1], gB) /\ is(svgOut.kids[2], gA)
               ELSE is(svgOut.kids[1], gA) /\ is(svgOut.kids[2], gB)
            /\ \A i \in 1..2 : svgOut.kids[i].op \in 0..100

\* compositeAlpha has been called with swap and with alphas above 1 and below
\* 0 on two different texts: B's group comes first, with opacity 0, and A's
\* second, with opacity 1
C32_SwappedAndClamped ==
    /\ applied.op = "compositeAlpha"
    /\ applied.args = << 150, 0 - 20, TRUE >>
    /\ svgIn.root /\ applied.other.root
    /\ svgIn.kids # applied.other.kids
    /\ svgIn.kids # << >> /\ applied.other.kids # << >>
    /\ Len(svgOut.kids) = 2
    /\ svgOut.kids[1].kids = applied.other.kids /\ svgOut.kids[1].op = 0
    /\ svgOut.kids[2].kids = svgIn.kids /\ svgOut.kids[2].op = 100

\* the children of a root that are style or defs elements, and the others
StyleAndDefs(kids) == SelectSeq(kids, LAMBDA c : c.tag \in { "style", "defs" })
Geometry(kids) == SelectSeq(kids, LAMBDA c : c.tag \notin { "style", "defs" })

\* C33 as stated: applyTransform(doc, tx, ty, sx, sy) leaves the style and defs
\* children at the root, moves every other root child, in order, into one new
\* group, and gives the group translate(tx,ty) scale(sx,sy) with the four
\* numbers it was passed
C33_GroupCarriesPassedNumbers ==
    (applied.op = "applyTransform" /\ svgIn.root) =>
        LET g == svgOut.kids[Len(svgOut.kids)]
        IN  /\ svgOut.kids = Append(StyleAndDefs(svgIn.kids), g)
            /\ g.tag = "g" /\ g.kids = Geometry(svgIn.kids)
            /\ g.tf = applied.args

\* C33: applyTransform(doc, tx, ty, sx, sy) leaves the style and defs children
\* at the root, moves every other root child, in order, into exactly one new
\* group, and gives the group translate(tx,ty) scale(sx,sy), a scale of 0 being
\* replaced by 1; with (0, 0, 1, 1) the text paints what it painted before
C33_OneGroupKeepsOrder ==
    (applied.op = "applyTransform" /\ svgIn.root) =>
        LET g == svgOut.kids[Len(svgOut.kids)]
            p == applied.args
        IN  /\ svgOut.kids = Append(StyleAndDefs(svgIn.kids), g)
            /\ g.tag = "g" /\ g.kids = Geometry(svgIn.kids)
            /\ g.tf = << p[1], p[2], IF p[3] = 0 THEN 100 ELSE p[3],
                         IF p[4] = 0 THEN 100 ELSE p[4] >>
            /\ p = IdentityTransform => PaintOf(svgOut) = PaintOf(svgIn)

\* applyTransform has been called with a scale of 0 on a text whose root holds
\* a style element before its drawing: the style element stays at the root,
\* the drawing is inside the group, and the group scales by 1 horizontally
C33_StyleStaysScaleZero ==
    /\ applied.op = "applyTransform"
    /\ applied.args = << 5, 0, 0, 50 >>
    /\ svgIn.root
    /\ Len(svgIn.kids) >= 2
    /\ svgIn.kids[1].tag = "style"
    /\ Len(svgOut.kids) = 2
    /\ svgOut.kids[1].tag = "style"
    /\ svgOut.kids[2].kids = Tail(svgIn.kids)
    /\ svgOut.kids[2].tf = << 5, 0, 100, 50 >>
    /\ PaintOf(svgOut) # << >>

RECURSIVE Chains(_, _)
\* for every element of a text, in document order, the element followed by its
\* ancestors, nearest first
Chains(kids, above) ==
    IF kids = << >> THEN << >>
    ELSE LET h  == Head(kids)
             me == << [ tag |-> h.tag, pre |-> h.pre, n |-> h.n, ds |-> h.ds,
                        ig |-> h.ig, hid |-> h.hid ] >> \o above
         IN  << me >> \o Chains(h.kids, me) \o Chains(Tail(kids), above)

\* the element or one of its ancestors has display="none"
Hidden(chain) == \E i \in DOMAIN chain : chain[i].hid

\* the index of the nearest id ending in -sN, the element's own or an
\* ancestor's; NoIndex without one
SuffixIndex(chain) ==
    LET at == { i \in DOMAIN chain : chain[i].n # NoIndex }
    IN  IF at = {} THEN NoIndex
        ELSE chain[CHOOSE i \in at : \A j \in at : i <= j].n

\* V: the positive data-stroke of the path, polyline and line elements that are
\* no decoration and are not hidden; when there is none, the positive suffix
\* indices of the path, polyline, line and g elements that are no decoration
\* and are not hidden
VisibleIndices(doc) ==
    LET chains == { Chains(doc.kids, << >>)[i] :
                        i \in DOMAIN Chains(doc.kids, << >>) }
        seen   == { c \in chains : ~ c[1].ig /\ ~ Hidden(c) }
        tagged == { c[1].ds : c \in { d \in seen : d[1].tag \in LeafTags } }
                      \cap (1..MaxDeclared)
        suffix == { SuffixIndex(c) :
                        c \in { d \in seen : d[1].tag \in LeafTags \cup { "g" } } }
                      \cap (1..MaxDeclared)
    IN  IF tagged # {} THEN tagged ELSE suffix

\* C34: countStrokesRobust(doc) is max(|V|, max V), V being the positive stroke
\* indices of the stroke elements of doc that are not hidden, by themselves or
\* through a hidden ancestor; it is 0 when V is empty or doc holds no <svg>
C34_CountIsMaxOfVisible ==
    applied.op = "countStrokesRobust" =>
        LET V == VisibleIndices(svgIn)
        IN  applied.visible =
                IF ~ svgIn.root \/ V = {} THEN 0
                ELSE Max2(Cardinality(V), SetMax(V))

\* countStrokesRobust has counted a text in which a path tagged as stroke 2
\* has no display attribute but lies inside a hidden group, next to a visible
\* stroke 1: the count is 1
C34_HiddenAncestorNotCounted ==
    /\ applied.op = "countStrokesRobust"
    /\ applied.visible = 1
    /\ \E i \in DOMAIN Chains(svgIn.kids, << >>) :
           LET c == Chains(svgIn.kids, << >>)[i]
           IN  /\ c[1].tag \in LeafTags /\ c[1].ds = 2 /\ ~ c[1].hid
               /\ Hidden(c)
    /\ \A i \in DOMAIN Chains(svgIn.kids, << >>) :
           LET c == Chains(svgIn.kids, << >>)[i]
           IN  (c[1].tag \in LeafTags /\ c[1].ds = 2) => Hidden(c)

\* the operations that return a text
TextOps == { "forceStrokeColor", "applyTransform", "range", "composite", "compositeAlpha" }

\* C35: forceStrokeColor, applyTransform, applyRangeBaked (as the Range rule
\* calls it), composite and compositeAlpha return their first argument as it
\* is, not parsed and serialised again, when it holds no <svg> element;
\* composite and compositeAlpha also when their second argument holds none
C35_NoRootReturnedUnchanged ==
    /\ (applied.op \in TextOps /\ ~ svgIn.root) => svgOut = svgIn
    /\ (applied.op \in { "composite", "compositeAlpha" } /\ ~ applied.other.root)
           => svgOut = svgIn

\* compositeAlpha has been given a text without <svg> element, itself returned
\* by an earlier operation, and a glyph as second argument, and has returned
\* the first
C35_AlphaOnNoRoot ==
    /\ applied.op = "compositeAlpha"
    /\ applied.k = 2
    /\ svgIn = NoSvg
    /\ applied.other.root /\ applied.other.kids # << >>
    /\ svgOut = NoSvg

\* C38: when a Range node follows a Transform node, the text it returns paints
\* what the Transform node would return on the output of the same Range node
\* placed before it: the same strokes, each under the Transform's translate
\* and scale
C38_RangeKeepsUpstreamTransform ==
    applied.op = "range" =>
        \A X \in SourceDocs, p \in DomTransformArgs :
            (X.root /\ svgIn = applyTransformDom(X, p[1], p[2], p[3], p[4])) =>
                PaintOf(svgOut) =
                    PaintOf(applyTransformDom(
                                rangeNodeDom(X, applied.start, applied.end).svg,
                                p[1], p[2], p[3], p[4]))

\* the text has been baked before: its root holds a __baked_strokes__ group
Rebaked(doc) == \E i \in DOMAIN doc.kids : doc.kids[i].pre = BakedGroupId

\* C39: when a Range node is fed the output of another Range node, the text it
\* returns holds one g[data-stroke] group per stroke index, e - s + 1 of them
\* are visible for the effective bounds [s, e], and no stroke is painted twice
C39_RebakeKeepsOneGroupPerIndex ==
    (applied.op = "range" /\ svgIn.root /\ Rebaked(svgIn) /\ applied.count > 0) =>
        LET gs == StrokeGroups(svgOut)
            pt == PaintOf(svgOut)
        IN  /\ \A i, j \in DOMAIN gs : i < j => gs[i].ds # gs[j].ds
            /\ Len(VisibleGroups(svgOut)) = applied.end - applied.start + 1
            /\ \A i, j \in DOMAIN pt :
                   (i < j /\ pt[i].n # NoIndex) =>
                       ~ (pt[i].pre = pt[j].pre /\ pt[i].n = pt[j].n)

\* no dispatch in progress and no handler waiting to dispatch
Quiet == frames = << >> /\ tasks = << >>

\* C37: after a node has dispatched a 'node-preview' notification, the
\* notifications it triggers come to an end, whatever the Transform and the
\* Composite node take as their sources
C37_PropagationTerminates == (emitted # "") ~> [] Quiet

\* what the rule of node n gives in evaluator e for the inputs a and b
RuleIn(e, n, a, b) ==
    LET ty   == nodes[n].type
        data == nodes[n].data
    IN  CASE ty = "range"     -> IF a = Null THEN Null ELSE RangeRule(e, data, a).out
          [] ty = "transform" -> TransformRule(e, data, a)
          [] ty = "composite" -> CompositeRule(e, data, a, b)
          [] OTHER            -> Null

\* C36: TransformNode.evalNodeSvg, CompositeNode.evalNodeSvg and App.evalNode
\* agree: every rule a pass has applied gives, for the inputs it was applied
\* to, the same artifact in each of the three evaluators
C36_EvaluatorsAgree ==
    \A en \in applyLog : \A e \in Evaluators :
        en.out = RuleIn(e, en.node, en.a, en.b)


=============================================================================
